---- MODULE Spec2Model ----
(***************************************************************************)
(* Break / retest / confirmation trading system: the per-symbol trade      *)
(* state machine and the three drivers that feed it bars                   *)
(*   "bt"   Backtester            (backtester.py)                          *)
(*   "px"   BacktesterProjectX    (backtester_projectx.py)                 *)
(*   "live" the polling loop of main()  (main.py)                          *)
(*   "logic" TradingLogic.process_bar called once per bar                  *)
(*           (strategy/trading_logic.py)                                   *)
(* together with the detectors, the validator and the risk functions the   *)
(* drivers call.                                                           *)
(*                                                                         *)
(* Units.  Prices are integers counting half points (200 is the price      *)
(* 100.0, 199 is 99.5), so every price of the model is exact.  A timestamp *)
(* is <<day, minute>>, minute counted from midnight exchange time.         *)
(* Python's None is the empty tuple and a present value v is <<v>>; a      *)
(* level dictionary is a function whose domain holds the level names that  *)
(* are not None; an indicator value that is unavailable is 0 (the code     *)
(* tests indicators by truthiness).                                        *)
(*                                                                         *)
(* Composition.  The call sites and the callees of the repository do not   *)
(* agree on every name: the replay drivers call check_for_break and        *)
(* check_for_retest without the indicator argument the detectors take,     *)
(* main() reads break_event['level'] where the detector writes             *)
(* 'level_value', OrderManager calls calculate_take_profit where           *)
(* TakeProfitManager defines set_profit_target, and two configuration      *)
(* names the code reads (MAX_ENTRY_SLIPPAGE_POINTS,                        *)
(* MIN_DISTANCE_FROM_LEVEL) are set nowhere.  The model binds each such    *)
(* call to the callee's algorithm, takes the indicator values from the bar *)
(* (they are data of the bar's timestamp), and takes the two unset names   *)
(* as configuration inputs.  Control flow, guards, assignments and         *)
(* arithmetic are followed as written.                                     *)
(***************************************************************************)
EXTENDS Integers, Sequences, FiniteSets, TLC

VARIABLES
    driver,         \* which driver runs: "bt", "px", "live" or "logic"
    cfg,            \* the configuration modules' values for this run
    phase,          \* "idle" between days, "bars" inside the bar loop
    day,            \* number of the day being simulated
    now,            \* index in TimeGrid of the timestamp being dispatched
    dispatched,     \* symbols whose bar of timestamp `now` has been taken
    included,       \* symbols whose frame is in today's combined data
    symbol_states,  \* self.symbol_states / symbol_states
    trades,         \* self.trades, the closed-trade log
    balance,        \* self.balance (half dollars)
    day_last,       \* per symbol in a trade, the last bar of today's data (px)
    crashed,        \* the driver left its loop through an exception
    cur,            \* the bar loop's locals at its last iteration
    scen,           \* history: leading bars of the run that are Scenario A's
    twin,           \* the live loop's symbol states, run beside the replay
    all_data,       \* the historical data the level calculation reads
    day_levels,     \* the result of the last level calculation
    call,           \* the last call of a risk function: arguments and result
    rt              \* the real-time feed: ticks handled, bars under construction

vars == <<driver, cfg, phase, day, now, dispatched, included, symbol_states,
          trades, balance, day_last, crashed, cur, scen, twin, all_data,
          day_levels, call, rt>>

\* The variables of the level calculation and of the side-by-side run.
aux == <<twin, all_data, day_levels, call, rt>>

---------------------------------------------------------------------------
(* Bounds of the model *)

\* The data set holds the first MaxBars timestamps of the calendar: whole
\* days of Len(TimeGrid) timestamps each, the last day possibly cut short.
MaxBars == 7

---------------------------------------------------------------------------
(* Configuration *)

BREAK_CONFIRMATION_CANDLES == 2
RETEST_TIMEOUT_MINUTES == 60
RISK_DOLLAR_AMOUNT == 250
MAX_POSITION_SIZE == 10
MorningStart == 570
MorningEnd == 660
AfternoonStart == 840
RegularEnd == 960
InitialBalance == 50000

None == <<>>
Some(v) == <<v>>

Symbols == {"MNQ"}
SymbolOrder == <<"MNQ">>

\* config/strategy_config.py, config/risk_config.py, config/market_config.py.
\* The multiplier 1.5 is the fraction mult_num / mult_den.
CodeCfg ==
    [ name                 |-> "code",
      confirmation_candles |-> BREAK_CONFIRMATION_CANDLES,
      retest_timeout       |-> RETEST_TIMEOUT_MINUTES,
      tolerance            |-> [MNQ |-> 30, MES |-> 9],
      ema_tolerance_13     |-> [MNQ |-> 80, MES |-> 9],
      min_volume           |-> [MNQ |-> 80, MES |-> 20],
      allow_ema_dip        |-> TRUE,
      require_ema_stack    |-> TRUE,
      buffer               |-> [MNQ |-> 50, MES |-> 6, M2K |-> 15],
      dollar_per_point     |-> [MNQ |-> 2, MES |-> 5, M2K |-> 5],
      risk_dollar          |-> Some(RISK_DOLLAR_AMOUNT),
      risk_per_trade_pct   |-> 1,
      take_profit_rrr      |-> 2,
      mult_num             |-> 3,
      mult_den             |-> 2,
      max_position         |-> MAX_POSITION_SIZE,
      max_slippage         |-> 10,
      min_distance         |-> [MNQ |-> 6, MES |-> 6] ]

\* The configuration of the specification's Scenario A: tolerance 1.0,
\* buffer 2.0, risk 100 dollars, 1 dollar per point, one confirmation
\* candle, no volume floor, a position cap the scenario never reaches.  The
\* multiplier is the code's.
ScenarioCfg ==
    [ name                 |-> "scenarioA",
      confirmation_candles |-> 1,
      retest_timeout       |-> RETEST_TIMEOUT_MINUTES,
      tolerance            |-> [MNQ |-> 2, MES |-> 2],
      ema_tolerance_13     |-> [MNQ |-> 2, MES |-> 2],
      min_volume           |-> [MNQ |-> 0, MES |-> 0],
      allow_ema_dip        |-> TRUE,
      require_ema_stack    |-> TRUE,
      buffer               |-> [MNQ |-> 4, MES |-> 4],
      dollar_per_point     |-> [MNQ |-> 1, MES |-> 1],
      risk_dollar          |-> Some(100),
      risk_per_trade_pct   |-> 1,
      take_profit_rrr      |-> 2,
      mult_num             |-> 3,
      mult_den             |-> 2,
      max_position         |-> 100,
      max_slippage         |-> 10,
      min_distance         |-> [MNQ |-> 0, MES |-> 0] ]

Configs == {CodeCfg, ScenarioCfg}
Drivers == {"bt", "px", "live", "logic"}

---------------------------------------------------------------------------
(* Inputs: bars and level sets *)

Shape(o, h, l, c, v, e13, e48, e200) ==
    [open |-> o, high |-> h, low |-> l, close |-> c, volume |-> v,
     ema_13 |-> e13, ema_48 |-> e48, ema_200 |-> e200]

\* The bars a symbol can print at a timestamp (half points).  The three
\* averages come together.
BarShapes ==
    { Shape(200, 202, 200, 202, 100, 196, 150, 100),  \* closes above 100.0
      Shape(202, 204, 199, 203, 100, 196, 150, 100),  \* dips to 99.5, rejects
      Shape(203, 204, 202, 204, 100, 196, 150, 100),  \* bullish, closes 102.0
      Shape(204, 320, 40, 200, 100, 196, 150, 100),   \* very wide range
      Shape(204, 320, 202, 300, 100, 196, 150, 100),  \* spikes up
      Shape(190, 192, 188, 190, 100, 196, 150, 100),  \* inside the range
      Shape(204, 204, 40, 160, 100, 184, 300, 400),   \* falls through 90.0
      Shape(177, 181, 170, 172, 100, 184, 300, 400),  \* pops to 90.5, rejects
      Shape(172, 174, 166, 168, 100, 184, 300, 400) } \* bearish, closes 84.0

\* Timestamps (minutes) at which bars exist on a day; gaps are tolerated.
TimeGrid == <<570, 580, 590, 600, 650, 900>>

\* What the level calculator can hand the driver for a symbol-day.
LevelOutcomes ==
    { [pdh |-> 200, pdl |-> 180],
      [pdh |-> 208, pdl |-> 170, pmh |-> 200, pml |-> 180],
      [pmh |-> 200, pml |-> 180] }

NoLevels == [k \in {} |-> 0]

After(a, b) == a[1] > b[1] \/ (a[1] = b[1] /\ a[2] > b[2])

Abs(x) == IF x < 0 THEN -x ELSE x

SetMax(S) == CHOOSE x \in S : \A y \in S : y <= x
SetMin(S) == CHOOSE x \in S : \A y \in S : x <= y

\* Python dictionaries keep insertion order; the level dictionaries are
\* built in this order.
LevelKeyOrder == <<"pdh", "pdl", "pmh", "pml">>

FirstKeyWith(lv, value) ==
    LET idx == {i \in 1..Len(LevelKeyOrder) :
                    LevelKeyOrder[i] \in DOMAIN lv /\ lv[LevelKeyOrder[i]] = value}
    IN LevelKeyOrder[SetMin(idx)]

---------------------------------------------------------------------------
(* strategy/break_detector.py *)

NewBreakDetector ==
    [break_above_confirmations |-> 0, break_below_confirmations |-> 0,
     last_break_type |-> "None"]

BreakDetector_reset(bd) == NewBreakDetector

\* check_for_break: the detector's state after the call and the event it
\* returns (None or an event).
check_for_break(bd, bar, levels) ==
    LET close_price == bar.close
        support_keys == DOMAIN levels \cap {"pdl", "pml"}
        resistance_keys == DOMAIN levels \cap {"pdh", "pmh"}
        has_support == support_keys # {}
        has_resistance == resistance_keys # {}
        highest_support == SetMax({levels[k] : k \in support_keys})
        lowest_resistance == SetMin({levels[k] : k \in resistance_keys})
        is_breaking_above == has_resistance /\ close_price > lowest_resistance
        is_breaking_below == has_support /\ close_price < highest_support
        counted ==
            IF is_breaking_above
            THEN LET b == IF bd.last_break_type # "up" THEN BreakDetector_reset(bd) ELSE bd
                 IN [b EXCEPT !.last_break_type = "up",
                              !.break_above_confirmations = @ + 1]
            ELSE IF is_breaking_below
            THEN LET b == IF bd.last_break_type # "down" THEN BreakDetector_reset(bd) ELSE bd
                 IN [b EXCEPT !.last_break_type = "down",
                              !.break_below_confirmations = @ + 1]
            ELSE IF bd.break_above_confirmations > 0 \/ bd.break_below_confirmations > 0
            THEN BreakDetector_reset(bd)
            ELSE bd
        ema_200 == bar.ema_200
        \* min(resistance_levels, key=...) / max(support_levels, key=...):
        \* the first key, in dictionary order, that holds the extreme value
        res_name == FirstKeyWith([k \in resistance_keys |-> levels[k]], lowest_resistance)
        sup_name == FirstKeyWith([k \in support_keys |-> levels[k]], highest_support)
    IN  IF /\ counted.break_above_confirmations >= cfg.confirmation_candles
           /\ ema_200 # 0 /\ close_price > ema_200
           /\ has_resistance
        THEN [bd |-> BreakDetector_reset(counted),
              event |-> Some([type |-> "up", level_name |-> res_name,
                              level_value |-> levels[res_name], candle |-> bar])]
        ELSE IF /\ counted.break_below_confirmations >= cfg.confirmation_candles
                /\ ema_200 # 0 /\ close_price < ema_200
                /\ has_support
        THEN [bd |-> BreakDetector_reset(counted),
              event |-> Some([type |-> "down", level_name |-> sup_name,
                              level_value |-> levels[sup_name], candle |-> bar])]
        ELSE [bd |-> counted, event |-> None]

---------------------------------------------------------------------------
(* strategy/retest_detector.py *)

\* A detector that knows the retest of the static level only.
check_for_retest_StaticOnly(symbol, bar, broken_level_price, break_direction) ==
    LET tolerance == cfg.tolerance[symbol]
    IN IF break_direction = "up"
       THEN IF /\ bar.low <= broken_level_price + tolerance
               /\ bar.low >= broken_level_price - tolerance
               /\ 2 * bar.close >= bar.high + bar.low
            THEN Some("STATIC") ELSE None
       ELSE IF /\ bar.high >= broken_level_price - tolerance
               /\ bar.high <= broken_level_price + tolerance
               /\ 2 * bar.close <= bar.high + bar.low
            THEN Some("STATIC") ELSE None

\* check_for_retest returns (pivot, rejection, confluence_type); pivot and
\* rejection are the bar itself or None together, so the result here is
\* None or the confluence type.
check_for_retest(symbol, bar, broken_level_price, break_direction) ==
    LET tolerance == cfg.tolerance[symbol]
        retest_zone_upper == broken_level_price + tolerance
        retest_zone_lower == broken_level_price - tolerance
        \* close >= (high + low) / 2, without the division
        wick_touched_static_level ==
            IF break_direction = "up"
            THEN bar.low <= retest_zone_upper /\ bar.low >= retest_zone_lower
            ELSE bar.high >= retest_zone_lower /\ bar.high <= retest_zone_upper
        is_rejection_candle ==
            IF break_direction = "up"
            THEN 2 * bar.close >= bar.high + bar.low
            ELSE 2 * bar.close <= bar.high + bar.low
        ema_13 == bar.ema_13
        tol13 == cfg.ema_tolerance_13[symbol]
        price_on_correct_side ==
            IF break_direction = "up" THEN bar.close > broken_level_price
                                      ELSE bar.close < broken_level_price
        wick_touched_ema ==
            IF break_direction = "up" THEN bar.low <= ema_13 + tol13
                                      ELSE bar.high >= ema_13 - tol13
        is_bullish_stack == bar.close > ema_13 /\ ema_13 > bar.ema_48 /\ bar.ema_48 > bar.ema_200
        is_bearish_stack == bar.close < ema_13 /\ ema_13 < bar.ema_48 /\ bar.ema_48 < bar.ema_200
    IN  IF wick_touched_static_level /\ is_rejection_candle
        THEN Some("STATIC")
        ELSE IF /\ cfg.allow_ema_dip /\ ema_13 # 0
                /\ price_on_correct_side /\ wick_touched_ema /\ is_rejection_candle
        THEN IF cfg.require_ema_stack
             THEN IF bar.ema_48 = 0 \/ bar.ema_200 = 0
                  THEN None
                  ELSE IF \/ (break_direction = "up" /\ ~is_bullish_stack)
                          \/ (break_direction = "down" /\ ~is_bearish_stack)
                  THEN None
                  ELSE Some("13_EMA_DIP")
             ELSE Some("13_EMA_DIP")
        ELSE None

---------------------------------------------------------------------------
(* strategy/pattern_validator.py *)

_check_level_confluence(signal_direction, entry_candle, levels, min_dist) ==
    LET entry_price == entry_candle.close
    IN \E k \in DOMAIN levels :
          /\ Abs(entry_price - levels[k]) < min_dist
          /\ IF signal_direction = "BUY" THEN entry_price < levels[k]
                                         ELSE entry_price > levels[k]

\* validate_signal returns (is_valid, reason); context is the dictionary the
\* caller built: symbol, breakout_candle, latest_bar, levels (levels is {}
\* when the caller passes none).
validate_signal(signal_direction, context) ==
    IF context.breakout_candle.volume < cfg.min_volume[context.symbol]
    THEN [is_valid |-> FALSE, reason |-> "volume"]
    ELSE IF _check_level_confluence(signal_direction, context.latest_bar,
                                    context.levels, cfg.min_distance[context.symbol])
    THEN [is_valid |-> FALSE, reason |-> "level confluence"]
    ELSE IF signal_direction = "BUY" /\ context.latest_bar.close <= context.latest_bar.open
    THEN [is_valid |-> FALSE, reason |-> "not bullish"]
    ELSE IF signal_direction = "SELL" /\ context.latest_bar.close >= context.latest_bar.open
    THEN [is_valid |-> FALSE, reason |-> "not bearish"]
    ELSE [is_valid |-> TRUE, reason |-> "Validation successful."]

---------------------------------------------------------------------------
(* risk/stop_loss_manager.py, risk/position_sizer.py,                     *)
(* risk/take_profit_manager.py                                            *)

\* calculate_stop_from_candle with the short stop placed below the pivot
\* high instead of above it.
calculate_stop_from_candle_ShortBelow(signal_direction, pivot_candle, symbol) ==
    IF pivot_candle = None THEN None
    ELSE IF symbol \notin DOMAIN cfg.buffer THEN None
    ELSE IF signal_direction = "BUY"
    THEN Some(pivot_candle[1].low - cfg.buffer[symbol])
    ELSE IF signal_direction = "SELL"
    THEN Some(pivot_candle[1].high - cfg.buffer[symbol])
    ELSE None

\* StopLossManager.calculate_stop_from_candle.  pivot_candle is None or
\* Some(bar); the result is None or Some(price).
calculate_stop_from_candle(signal_direction, pivot_candle, symbol) ==
    IF pivot_candle = None THEN None
    ELSE IF symbol \notin DOMAIN cfg.buffer THEN None
    ELSE IF signal_direction = "BUY"
    THEN Some(pivot_candle[1].low - cfg.buffer[symbol])
    ELSE IF signal_direction = "SELL"
    THEN Some(pivot_candle[1].high + cfg.buffer[symbol])
    ELSE None

\* The stop at the drivers' call sites: they pass a candle they hold and
\* test the result by truthiness, which None and 0.0 both fail.
StopPrice(signal_direction, pivot_candle, symbol) ==
    LET stop_price == calculate_stop_from_candle(signal_direction, Some(pivot_candle), symbol)
    IN IF stop_price = None THEN 0 ELSE stop_price[1]

\* calculate_size without the MAX_POSITION_SIZE cap.
calculate_size_NoCap(account_balance, entry_price, stop_loss_price, symbol, is_high_conviction) ==
    LET stop_loss_points == Abs(entry_price - stop_loss_price)
        value_per_point == cfg.dollar_per_point[symbol]
        mult_num == IF is_high_conviction THEN cfg.mult_num ELSE cfg.mult_den
        num == IF cfg.risk_dollar # None
               THEN 2 * cfg.risk_dollar[1] * mult_num * 100
               ELSE account_balance * cfg.risk_per_trade_pct * mult_num
        den == 100 * cfg.mult_den * stop_loss_points * value_per_point
    IN  IF symbol \notin DOMAIN cfg.dollar_per_point THEN 0
        ELSE IF stop_loss_points = 0 THEN 0
        ELSE num \div den

\* calculate_size answering 0, instead of the cap, for a size above
\* MAX_POSITION_SIZE.
calculate_size_OversizeIsZero(account_balance, entry_price, stop_loss_price, symbol, is_high_conviction) ==
    LET stop_loss_points == Abs(entry_price - stop_loss_price)
        value_per_point == cfg.dollar_per_point[symbol]
        mult_num == IF is_high_conviction THEN cfg.mult_num ELSE cfg.mult_den
        num == IF cfg.risk_dollar # None
               THEN 2 * cfg.risk_dollar[1] * mult_num * 100
               ELSE account_balance * cfg.risk_per_trade_pct * mult_num
        den == 100 * cfg.mult_den * stop_loss_points * value_per_point
        final_size == num \div den
    IN  IF symbol \notin DOMAIN cfg.dollar_per_point THEN 0
        ELSE IF stop_loss_points = 0 THEN 0
        ELSE IF final_size > cfg.max_position THEN 0
        ELSE final_size

\* PositionSizer.calculate_size: floor(total_risk_amount / risk_per_contract),
\* capped at MAX_POSITION_SIZE.  Prices are half points and the balance is
\* half dollars, so with d = stop_loss_points (half points) the quotient is
\*   fixed amount:  (2 * risk_dollar * mult) / (d * value_per_point)
\*   fraction:      (balance * pct * mult) / (100 * d * value_per_point)
\* each written as one integer division.
calculate_size(account_balance, entry_price, stop_loss_price, symbol, is_high_conviction) ==
    LET stop_loss_points == Abs(entry_price - stop_loss_price)
        value_per_point == cfg.dollar_per_point[symbol]
        mult_num == IF is_high_conviction THEN cfg.mult_num ELSE cfg.mult_den
        num == IF cfg.risk_dollar # None
               THEN 2 * cfg.risk_dollar[1] * mult_num * 100
               ELSE account_balance * cfg.risk_per_trade_pct * mult_num
        den == 100 * cfg.mult_den * stop_loss_points * value_per_point
        final_size == num \div den
    IN  IF symbol \notin DOMAIN cfg.dollar_per_point THEN 0
        ELSE IF stop_loss_points = 0 THEN 0
        ELSE IF final_size > cfg.max_position THEN cfg.max_position
        ELSE final_size

set_profit_target(entry_price, stop_loss_price, signal_direction) ==
    LET risk_amount == Abs(entry_price - stop_loss_price)
    IN IF signal_direction = "BUY" THEN entry_price + risk_amount * 2
                                   ELSE entry_price - risk_amount * 2

---------------------------------------------------------------------------
(* Per-symbol state: the dictionaries of self.symbol_states *)

NewDailyStatus == [trade_taken |-> FALSE, last_trade_outcome |-> "None"]

NewSymbolState ==
    [ state                |-> "AWAITING_BREAK",
      break_detector       |-> NewBreakDetector,
      last_break_event     |-> None,
      retest_timeout_stamp |-> None,
      retest_context       |-> None,
      active_trade         |-> None,
      levels               |-> NoLevels,
      daily_trade_status   |-> NewDailyStatus ]

Bar(shape, ts) ==
    [name |-> ts, open |-> shape.open, high |-> shape.high, low |-> shape.low,
     close |-> shape.close, volume |-> shape.volume, ema_13 |-> shape.ema_13,
     ema_48 |-> shape.ema_48, ema_200 |-> shape.ema_200]

Upper(level_name) ==
    CASE level_name = "pdh" -> "PDH"
      [] level_name = "pdl" -> "PDL"
      [] level_name = "pmh" -> "PMH"
      [] level_name = "pml" -> "PML"

is_morning(ts) == MorningStart <= ts[2] /\ ts[2] <= MorningEnd

Restrict(f, S) == [k \in S |-> f[k]]

\* The pre-market channel rule both replay drivers apply first.
ChannelLevels(key_levels, current_price, morning) ==
    IF morning /\ {"pmh", "pml"} \subseteq DOMAIN key_levels
               /\ key_levels["pmh"] # 0 /\ key_levels["pml"] # 0
    THEN IF current_price < key_levels["pmh"] /\ current_price > key_levels["pml"]
         THEN Restrict(key_levels, {"pmh", "pml"})
         ELSE IF current_price > key_levels["pmh"]
         THEN Restrict(key_levels, {"pmh"})
         ELSE IF current_price < key_levels["pml"]
         THEN Restrict(key_levels, {"pml"})
         ELSE NoLevels
    ELSE NoLevels

\* Nearest level below and nearest level above the price, each under the
\* first key that holds that value.
NearestLevels(key_levels, current_price) ==
    LET support == {k \in DOMAIN key_levels : key_levels[k] < current_price}
        resist == {k \in DOMAIN key_levels : key_levels[k] > current_price}
        skey == IF support = {} THEN {}
                ELSE {FirstKeyWith(key_levels, SetMax({key_levels[k] : k \in support}))}
        rkey == IF resist = {} THEN {}
                ELSE {FirstKeyWith(key_levels, SetMin({key_levels[k] : k \in resist}))}
    IN Restrict(key_levels, skey \cup rkey)

BT_active_levels(key_levels, current_price, morning) ==
    LET channel == ChannelLevels(key_levels, current_price, morning)
    IN IF DOMAIN channel # {} THEN channel
       ELSE NearestLevels(key_levels, current_price)

StoredBreakEvent(event) ==
    [type |-> event.type, level_name |-> event.level_name,
     level_value |-> event.level_value, candle |-> event.candle,
     level |-> event.level_value, name |-> Upper(event.level_name)]

AddMinutes(ts, m) == <<ts[1], ts[2] + m>>

BreakDir(break_event) == IF break_event.type = "up" THEN "up" ELSE "down"

\* Backtester.close_trade: the closed trade, the balance change (half
\* dollars) and the symbol state after it.
BT_close_trade(st, exit_bar, exit_reason) ==
    LET trade == st.active_trade[1]
        exit_price == IF exit_reason = "TP" THEN trade.take_profit
                      ELSE IF exit_reason = "SL" THEN trade.stop_loss
                      ELSE 0
        pnl == IF trade.side = "BUY" THEN exit_price - trade.entry_price
                                     ELSE trade.entry_price - exit_price
        pnl_dollars == pnl * cfg.dollar_per_point[trade.symbol] * trade.quantity
        result == IF pnl_dollars > 0 THEN "WIN" ELSE "LOSS"
        closed == [symbol |-> trade.symbol, entry_time |-> trade.entry_time,
                   entry_price |-> trade.entry_price, side |-> trade.side,
                   stop_loss |-> trade.stop_loss, take_profit |-> trade.take_profit,
                   quantity |-> trade.quantity, level_broken |-> trade.level_broken,
                   exit_time |-> exit_bar.name, exit_price |-> exit_price,
                   exit_reason |-> exit_reason, status |-> "CLOSED",
                   pnl_dollars |-> pnl_dollars, result |-> result]
    IN [st |-> [st EXCEPT !.daily_trade_status.last_trade_outcome =
                              IF result = "WIN" THEN "win" ELSE "loss",
                          !.active_trade = None,
                          !.state = "AWAITING_BREAK"],
        closed |-> Some(closed), crash |-> FALSE]

Keep(st) == [st |-> st, closed |-> None, crash |-> FALSE]

BT_awaiting_break(st, symbol, ts, latest_bar) ==
    LET active_levels == BT_active_levels(st.levels, latest_bar.close, is_morning(ts))
        r == check_for_break(st.break_detector, latest_bar, active_levels)
    IN IF DOMAIN active_levels = {} THEN Keep(st)
       ELSE IF r.event = None
       THEN Keep([st EXCEPT !.break_detector = r.bd])
       ELSE Keep([st EXCEPT !.break_detector = r.bd,
                            !.state = "AWAITING_RETEST",
                            !.last_break_event = Some(StoredBreakEvent(r.event[1])),
                            !.retest_timeout_stamp =
                                Some(AddMinutes(ts, cfg.retest_timeout))])

\* BT_awaiting_retest consulting the break detector first: a fresh break
\* replaces the pending event and restarts the deadline.
BT_awaiting_retest_Rebreak(st, symbol, ts, latest_bar) ==
    LET r == check_for_break(st.break_detector, latest_bar, st.levels)
    IN IF r.event # None
       THEN Keep([st EXCEPT !.break_detector = r.bd,
                            !.last_break_event = Some(StoredBreakEvent(r.event[1])),
                            !.retest_timeout_stamp =
                                Some(AddMinutes(ts, cfg.retest_timeout))])
       ELSE IF After(ts, st.retest_timeout_stamp[1])
       THEN Keep([st EXCEPT !.state = "AWAITING_BREAK"])
       ELSE Keep(st)

BT_awaiting_retest(st, symbol, ts, latest_bar) ==
    IF After(ts, st.retest_timeout_stamp[1])
    THEN Keep([st EXCEPT !.state = "AWAITING_BREAK"])
    ELSE LET break_event == st.last_break_event[1]
             conf_type == check_for_retest(symbol, latest_bar, break_event.level,
                                           BreakDir(break_event))
         IN IF conf_type # None
            THEN Keep([st EXCEPT !.state = "AWAITING_CONFIRMATION",
                                 !.retest_context =
                                     Some([break_event |-> break_event,
                                           pivot_candle |-> latest_bar,
                                           rejection_candle |-> latest_bar,
                                           confluence_type |-> conf_type])])
            ELSE Keep(st)

BT_is_confirmed(break_dir, latest_bar) ==
    \/ break_dir = "up" /\ latest_bar.close > latest_bar.open
    \/ break_dir = "down" /\ latest_bar.close < latest_bar.open

BT_is_high_conviction(retest_context) == retest_context.confluence_type # None

\* A failed confirmation that keeps waiting for the next bar.
BT_reset_to_break_Wait(st) == st

BT_reset_to_break(st) ==
    [st EXCEPT !.state = "AWAITING_BREAK", !.retest_context = None]

BT_awaiting_confirmation(st, symbol, ts, latest_bar) ==
    IF st.retest_context = None
    THEN Keep([st EXCEPT !.state = "AWAITING_BREAK"])
    ELSE
    LET retest_context == st.retest_context[1]
        break_event == retest_context.break_event
        break_dir == BreakDir(break_event)
        trade_side == IF break_dir = "up" THEN "BUY" ELSE "SELL"
        context == [breakout_candle |-> break_event.candle, symbol |-> symbol,
                    latest_bar |-> latest_bar, levels |-> st.levels]
        v == validate_signal(trade_side, context)
        sl_price == StopPrice(trade_side, retest_context.pivot_candle, symbol)
        entry_price == latest_bar.close
        slippage == IF trade_side = "BUY" THEN entry_price - break_event.level
                                          ELSE break_event.level - entry_price
        quantity == calculate_size(balance, entry_price, sl_price, symbol,
                                   BT_is_high_conviction(retest_context))
        tp_price == set_profit_target(entry_price, sl_price, trade_side)
        trade == [symbol |-> symbol, entry_time |-> ts, entry_price |-> entry_price,
                  side |-> trade_side, stop_loss |-> sl_price, take_profit |-> tp_price,
                  quantity |-> quantity, status |-> "ACTIVE",
                  level_broken |-> break_event.name]
    IN  IF ~BT_is_confirmed(break_dir, latest_bar) THEN Keep(BT_reset_to_break(st))
        ELSE IF ~v.is_valid THEN Keep(BT_reset_to_break(st))
        ELSE IF sl_price = 0 THEN Keep(BT_reset_to_break(st))
        ELSE IF slippage > cfg.max_slippage THEN Keep(BT_reset_to_break(st))
        ELSE IF quantity = 0 THEN Keep(BT_reset_to_break(st))
        ELSE Keep([st EXCEPT !.active_trade = Some(trade),
                             !.state = "IN_TRADE",
                             !.daily_trade_status.trade_taken = TRUE,
                             !.retest_context = None])

\* An exit test that looks at the target first.
BT_exit_reason_TargetFirst(trade, latest_bar) ==
    IF \/ trade.side = "BUY" /\ latest_bar.high >= trade.take_profit
       \/ trade.side = "SELL" /\ latest_bar.low <= trade.take_profit
    THEN "TP"
    ELSE IF \/ trade.side = "BUY" /\ latest_bar.low <= trade.stop_loss
            \/ trade.side = "SELL" /\ latest_bar.high >= trade.stop_loss
    THEN "SL"
    ELSE "None"

\* The stop is tested before the target.
BT_exit_reason(trade, latest_bar) ==
    IF \/ trade.side = "BUY" /\ latest_bar.low <= trade.stop_loss
       \/ trade.side = "SELL" /\ latest_bar.high >= trade.stop_loss
    THEN "SL"
    ELSE IF \/ trade.side = "BUY" /\ latest_bar.high >= trade.take_profit
            \/ trade.side = "SELL" /\ latest_bar.low <= trade.take_profit
    THEN "TP"
    ELSE "None"

BT_in_trade(st, symbol, ts, latest_bar) ==
    LET reason == BT_exit_reason(st.active_trade[1], latest_bar)
    IN IF reason = "None" THEN Keep(st) ELSE BT_close_trade(st, latest_bar, reason)

\* One iteration of the bar loop of Backtester.run_day_simulation.
BT_bar(st, symbol, ts, latest_bar) ==
    IF ~is_morning(ts) THEN Keep(st)
    ELSE CASE st.state = "AWAITING_BREAK" -> BT_awaiting_break(st, symbol, ts, latest_bar)
           [] st.state = "AWAITING_RETEST" -> BT_awaiting_retest(st, symbol, ts, latest_bar)
           [] st.state = "AWAITING_CONFIRMATION" -> BT_awaiting_confirmation(st, symbol, ts, latest_bar)
           [] st.state = "IN_TRADE" -> BT_in_trade(st, symbol, ts, latest_bar)

---------------------------------------------------------------------------
(* backtester_projectx.py *)

PX_active_levels(key_levels, current_price, morning) ==
    LET channel == ChannelLevels(key_levels, current_price, morning)
    IN IF DOMAIN channel # {} THEN channel ELSE key_levels

\* break_event.get('immediate_entry') / .get('high_conviction', False): the
\* keys are read from the event the detector returned.
EventFlag(event, key) == key \in DOMAIN event /\ event[key]

\* BacktesterProjectX._close_trade_and_reset_state
PX_close_trade_and_reset_state(st, exit_bar, exit_reason) ==
    LET trade == st.active_trade[1]
        exit_price == IF exit_reason = "STOP_LOSS" THEN trade.stop_loss
                      ELSE IF exit_reason = "TAKE_PROFIT" THEN trade.take_profit
                      ELSE exit_bar.close
        pnl_points == IF trade.side = "BUY" THEN exit_price - trade.entry_price
                                            ELSE trade.entry_price - exit_price
        pnl_dollars == pnl_points * trade.quantity * cfg.dollar_per_point[trade.symbol]
        closed == [symbol |-> trade.symbol, entry_time |-> trade.entry_time,
                   entry_price |-> trade.entry_price, side |-> trade.side,
                   stop_loss |-> trade.stop_loss, take_profit |-> trade.take_profit,
                   quantity |-> trade.quantity, level_broken |-> trade.level_broken,
                   exit_time |-> exit_bar.name, exit_price |-> exit_price,
                   pnl_points |-> pnl_points, pnl_dollars |-> pnl_dollars,
                   status |-> "CLOSED", reason_for_exit |-> exit_reason,
                   result |-> IF pnl_dollars > 0 THEN "WIN" ELSE "LOSS"]
    IN [st |-> [st EXCEPT !.active_trade = None,
                          !.state = "AWAITING_BREAK",
                          !.retest_context = None,
                          !.break_detector = BreakDetector_reset(@)],
        closed |-> Some(closed), crash |-> FALSE]

\* The A+ branch: entry on the breakout bar, the breakout bar as pivot.
PX_immediate_entry(st, symbol, ts, latest_bar, bd, break_event) ==
    LET trade_side == IF break_event.type = "up" THEN "BUY" ELSE "SELL"
        stop_loss_price == StopPrice(trade_side, break_event.candle, symbol)
        entry_price == latest_bar.close
        quantity == calculate_size(balance, entry_price, stop_loss_price, symbol,
                                   EventFlag(break_event, "high_conviction"))
        tp_price == set_profit_target(entry_price, stop_loss_price, trade_side)
        trade == [symbol |-> symbol, entry_time |-> ts, entry_price |-> entry_price,
                  side |-> trade_side, stop_loss |-> stop_loss_price,
                  take_profit |-> tp_price, quantity |-> quantity, status |-> "ACTIVE",
                  level_broken |-> Upper(break_event.level_name)]
    IN IF stop_loss_price # 0 /\ quantity > 0
       THEN Keep([st EXCEPT !.break_detector = bd,
                            !.active_trade = Some(trade),
                            !.state = "IN_TRADE",
                            !.daily_trade_status.trade_taken = TRUE])
       ELSE Keep([st EXCEPT !.state = "AWAITING_BREAK",
                            !.break_detector = BreakDetector_reset(bd)])

PX_awaiting_break(st, symbol, ts, latest_bar, morning) ==
    LET active_levels == PX_active_levels(st.levels, latest_bar.close, morning)
        r == check_for_break(st.break_detector, latest_bar, active_levels)
    IN IF DOMAIN active_levels = {} THEN Keep(st)
       ELSE IF r.event = None
       THEN Keep([st EXCEPT !.break_detector = r.bd])
       ELSE IF EventFlag(r.event[1], "immediate_entry")
       THEN PX_immediate_entry(st, symbol, ts, latest_bar, r.bd, r.event[1])
       ELSE Keep([st EXCEPT !.break_detector = r.bd,
                            !.state = "AWAITING_RETEST",
                            !.last_break_event = Some(StoredBreakEvent(r.event[1])),
                            !.retest_timeout_stamp =
                                Some(AddMinutes(ts, cfg.retest_timeout))])

\* Holds beyond the broken level and closes beyond the rejection candle's open.
PX_is_confirmed(break_dir, latest_bar, level_price, rejection_candle) ==
    \/ /\ break_dir = "up"
       /\ latest_bar.low > level_price /\ latest_bar.close > rejection_candle.open
    \/ /\ break_dir = "down"
       /\ latest_bar.high < level_price /\ latest_bar.close < rejection_candle.open

PX_awaiting_confirmation(st, symbol, ts, latest_bar) ==
    IF st.retest_context = None
    THEN Keep([st EXCEPT !.state = "AWAITING_BREAK"])
    ELSE
    LET retest_context == st.retest_context[1]
        break_event == retest_context.break_event
        break_dir == BreakDir(break_event)
        trade_side == IF break_dir = "up" THEN "BUY" ELSE "SELL"
        context == [breakout_candle |-> break_event.candle, symbol |-> symbol,
                    latest_bar |-> latest_bar, levels |-> NoLevels]
        v == validate_signal(trade_side, context)
        sl_price == StopPrice(trade_side, retest_context.pivot_candle, symbol)
        entry_price == latest_bar.close
        quantity == calculate_size(balance, entry_price, sl_price, symbol,
                                   retest_context.confluence_type # None)
        tp_price == set_profit_target(entry_price, sl_price, trade_side)
        trade == [symbol |-> symbol, entry_time |-> ts, entry_price |-> entry_price,
                  side |-> trade_side, stop_loss |-> sl_price, take_profit |-> tp_price,
                  quantity |-> quantity, status |-> "ACTIVE",
                  level_broken |-> break_event.name]
    IN  IF ~PX_is_confirmed(break_dir, latest_bar, break_event.level,
                            retest_context.rejection_candle)
        THEN Keep([st EXCEPT !.state = "AWAITING_BREAK"])
        ELSE IF ~v.is_valid THEN Keep(BT_reset_to_break(st))
        ELSE IF sl_price = 0 THEN Keep(BT_reset_to_break(st))
        ELSE IF quantity = 0 THEN Keep(BT_reset_to_break(st))
        ELSE Keep([st EXCEPT !.active_trade = Some(trade),
                             !.state = "IN_TRADE",
                             !.daily_trade_status.trade_taken = TRUE])

PX_exit_reason(trade, latest_bar) ==
    IF trade.side = "BUY"
    THEN IF latest_bar.low <= trade.stop_loss THEN "STOP_LOSS"
         ELSE IF latest_bar.high >= trade.take_profit THEN "TAKE_PROFIT"
         ELSE "None"
    ELSE IF latest_bar.high >= trade.stop_loss THEN "STOP_LOSS"
         ELSE IF latest_bar.low <= trade.take_profit THEN "TAKE_PROFIT"
         ELSE "None"

PX_exit_price(trade, reason) ==
    IF reason = "STOP_LOSS" THEN trade.stop_loss ELSE trade.take_profit

PX_in_trade(st, symbol, ts, latest_bar) ==
    IF st.active_trade = None THEN Keep(st)
    ELSE LET trade == st.active_trade[1]
             reason == PX_exit_reason(trade, latest_bar)
         IN IF reason # "None" /\ PX_exit_price(trade, reason) # 0
            THEN PX_close_trade_and_reset_state(st, latest_bar, reason)
            ELSE Keep(st)

\* PX_bar with the IN_TRADE branch falling through to the confirmation
\* branch when the bar triggers no exit.
PX_bar_FallThrough(st, symbol, ts, latest_bar) ==
    IF st.state # "IN_TRADE" /\ ~is_morning(ts) THEN Keep(st)
    ELSE CASE st.state = "AWAITING_BREAK" ->
                  PX_awaiting_break(st, symbol, ts, latest_bar, is_morning(ts))
           [] st.state = "AWAITING_RETEST" -> BT_awaiting_retest(st, symbol, ts, latest_bar)
           [] st.state = "AWAITING_CONFIRMATION" -> PX_awaiting_confirmation(st, symbol, ts, latest_bar)
           [] st.state = "IN_TRADE" ->
                  IF PX_exit_reason(st.active_trade[1], latest_bar) = "None"
                     /\ st.retest_context # None
                  THEN PX_awaiting_confirmation(st, symbol, ts, latest_bar)
                  ELSE PX_in_trade(st, symbol, ts, latest_bar)

\* One iteration of the bar loop of BacktesterProjectX.run_day_simulation.
PX_bar(st, symbol, ts, latest_bar) ==
    IF st.state # "IN_TRADE" /\ ~is_morning(ts) THEN Keep(st)
    ELSE CASE st.state = "AWAITING_BREAK" ->
                  PX_awaiting_break(st, symbol, ts, latest_bar, is_morning(ts))
           [] st.state = "AWAITING_RETEST" -> BT_awaiting_retest(st, symbol, ts, latest_bar)
           [] st.state = "AWAITING_CONFIRMATION" -> PX_awaiting_confirmation(st, symbol, ts, latest_bar)
           [] st.state = "IN_TRADE" -> PX_in_trade(st, symbol, ts, latest_bar)

\* The end-of-day loop: a symbol still in a trade is closed at the close of
\* its last bar of the day.
PX_end_of_day(st, last_bar_of_day) ==
    IF st.state = "IN_TRADE" /\ st.active_trade # None /\ last_bar_of_day # None
    THEN PX_close_trade_and_reset_state(st, last_bar_of_day[1], "EOD")
    ELSE Keep(st)

---------------------------------------------------------------------------
(* main.py: one pass of the polling loop for one symbol *)

AllLevelKeys == {"pdh", "pdl", "pmh", "pml"}

\* SessionManager.get_current_session
get_current_session(ts) ==
    IF MorningStart <= ts[2] /\ ts[2] < MorningEnd THEN "morning"
    ELSE IF AfternoonStart <= ts[2] /\ ts[2] < RegularEnd THEN "afternoon"
    ELSE "None"

\* TakeProfitManager.check_ema_trail_stop
check_ema_trail_stop(latest_bar, position_side) ==
    IF latest_bar.ema_13 = 0 THEN FALSE
    ELSE \/ position_side = "BUY" /\ latest_bar.close < latest_bar.ema_13
         \/ position_side = "SELL" /\ latest_bar.close > latest_bar.ema_13

Crash(st) == [st |-> st, closed |-> None, crash |-> TRUE]

\* The comparisons v < current_price over key_levels.items() raise when a
\* level is None.
LIVE_awaiting_break(st, symbol, ts, latest_bar) ==
    IF DOMAIN st.levels # AllLevelKeys THEN Crash(st)
    ELSE
    LET active_levels == NearestLevels(st.levels, latest_bar.close)
        r == check_for_break(st.break_detector, latest_bar, active_levels)
    IN IF DOMAIN active_levels = {} THEN Keep(st)
       ELSE IF r.event = None
       THEN Keep([st EXCEPT !.break_detector = r.bd])
       ELSE Keep([st EXCEPT !.break_detector = r.bd,
                            !.state = "AWAITING_RETEST",
                            !.last_break_event = Some(StoredBreakEvent(r.event[1])),
                            !.retest_timeout_stamp = Some(ts)])

\* validate_signal returns a tuple, which is never falsy, so the test
\* `if not is_valid_signal` never rejects.  OrderManager.execute_trade
\* returns a bare None when the size is zero, which the caller cannot unpack.
LIVE_awaiting_retest(st, symbol, ts, latest_bar, order_accepted) ==
    IF After(ts, AddMinutes(st.retest_timeout_stamp[1], cfg.retest_timeout))
    THEN Keep([st EXCEPT !.state = "AWAITING_BREAK"])
    ELSE
    LET break_event == st.last_break_event[1]
        break_direction == BreakDir(break_event)
        confluence_type == check_for_retest(symbol, latest_bar, break_event.level,
                                            break_direction)
        trade_side == IF break_direction = "up" THEN "BUY" ELSE "SELL"
        current_price == latest_bar.close
        stop_loss_price == StopPrice(trade_side, latest_bar, symbol)
        quantity == calculate_size(balance, current_price, stop_loss_price, symbol,
                                   confluence_type # None)
        trade == [order_id |-> "order", side |-> trade_side, quantity |-> quantity,
                  entry_price |-> current_price, status |-> "ACTIVE"]
    IN  IF confluence_type = None THEN Keep(st)
        ELSE IF stop_loss_price = 0 THEN Keep([st EXCEPT !.state = "AWAITING_BREAK"])
        ELSE IF quantity = 0 THEN Crash(st)
        ELSE IF order_accepted
        THEN Keep([st EXCEPT !.state = "IN_TRADE",
                             !.active_trade = Some(trade),
                             !.daily_trade_status.trade_taken = TRUE])
        ELSE Keep([st EXCEPT !.state = "AWAITING_BREAK"])

LIVE_in_trade(st, symbol, ts, latest_bar) ==
    IF st.active_trade = None THEN Keep([st EXCEPT !.state = "AWAITING_BREAK"])
    ELSE
    LET trade_details == st.active_trade[1]
        should_exit_on_ema == check_ema_trail_stop(latest_bar, trade_details.side)
        base == [order_id |-> trade_details.order_id, side |-> trade_details.side,
                 quantity |-> trade_details.quantity,
                 entry_price |-> trade_details.entry_price, status |-> "ACTIVE"]
        probation == [order_id |-> trade_details.order_id, side |-> trade_details.side,
                      quantity |-> trade_details.quantity,
                      entry_price |-> trade_details.entry_price,
                      status |-> "EMA_PROBATION",
                      probation_candle_timestamp |-> latest_bar.name]
    IN  IF trade_details.status = "ACTIVE"
        THEN IF should_exit_on_ema
             THEN Keep([st EXCEPT !.active_trade = Some(probation)])
             ELSE Keep(st)
        ELSE IF After(latest_bar.name, trade_details.probation_candle_timestamp)
        THEN IF should_exit_on_ema
             THEN Keep([st EXCEPT !.daily_trade_status.last_trade_outcome = "loss",
                                  !.state = "AWAITING_BREAK",
                                  !.active_trade = None])
             ELSE Keep([st EXCEPT !.active_trade = Some(base)])
        ELSE Keep(st)

LIVE_bar(st, symbol, ts, latest_bar, order_accepted) ==
    LET current_session == get_current_session(ts)
        daily_status == st.daily_trade_status
    IN  IF current_session = "None" THEN Keep(st)
        ELSE IF /\ current_session = "afternoon" /\ daily_status.trade_taken
                /\ daily_status.last_trade_outcome # "loss"
        THEN Keep(st)
        ELSE IF DOMAIN st.levels = {} THEN Keep(st)
        ELSE IF latest_bar.ema_200 = 0 THEN Keep(st)
        ELSE CASE st.state = "AWAITING_BREAK" -> LIVE_awaiting_break(st, symbol, ts, latest_bar)
               [] st.state = "AWAITING_RETEST" ->
                      LIVE_awaiting_retest(st, symbol, ts, latest_bar, order_accepted)
               [] st.state = "IN_TRADE" -> LIVE_in_trade(st, symbol, ts, latest_bar)
               [] OTHER -> Keep(st)

---------------------------------------------------------------------------
(* strategy/trading_logic.py *)

\* TradingLogic.reset_state
TL_reset_state(st) ==
    [st EXCEPT !.state = "AWAITING_BREAK", !.last_break_event = None]

\* TradingLogic.process_bar, the branch of an event flagged immediate_entry:
\* the validator decides; the stop is taken from the event's candle after
\* the state is set.
TL_immediate_entry(st, symbol, bar, bd, event, active_levels) ==
    LET trade_direction == IF event.type = "up" THEN "BUY" ELSE "SELL"
        v == validate_signal(trade_direction,
                 [symbol |-> symbol, breakout_candle |-> event.candle,
                  latest_bar |-> bar, levels |-> active_levels])
        stop_loss == StopPrice(trade_direction, event.candle, symbol)
        trade_signal == [trade_direction |-> trade_direction, entry_price |-> bar.close,
                         stop_loss |-> stop_loss,
                         take_profit |-> set_profit_target(bar.close, stop_loss,
                                                           trade_direction)]
    IN IF v.is_valid
       THEN Keep([st EXCEPT !.break_detector = bd,
                            !.state = "IN_TRADE",
                            !.active_trade = Some(trade_signal)])
       ELSE Keep(TL_reset_state([st EXCEPT !.break_detector = bd]))

\* TradingLogic.process_bar; last_break_event holds break_event_details.
\* The trade signal it returns is kept as the active trade.
TL_process_bar(st, symbol, ts, bar) ==
    LET active_levels == st.levels
        r == check_for_break(st.break_detector, bar, active_levels)
        details == st.last_break_event[1]
        conf_type == check_for_retest(symbol, bar, details.level_value, details.type)
        dir(ev) == IF ev.type = "up" THEN "BUY" ELSE "SELL"
        signal(ev, pivot) ==
            LET stop_loss == StopPrice(dir(ev), pivot, symbol)
            IN [trade_direction |-> dir(ev), entry_price |-> bar.close,
                stop_loss |-> stop_loss,
                take_profit |-> set_profit_target(bar.close, stop_loss, dir(ev))]
        valid(ev) == validate_signal(dir(ev),
                         [symbol |-> symbol, breakout_candle |-> ev.candle,
                          latest_bar |-> bar, levels |-> active_levels]).is_valid
    IN  CASE st.state = "AWAITING_BREAK" ->
                 IF r.event = None THEN Keep([st EXCEPT !.break_detector = r.bd])
                 ELSE IF EventFlag(r.event[1], "immediate_entry")
                 THEN TL_immediate_entry(st, symbol, bar, r.bd, r.event[1], active_levels)
                 ELSE Keep([st EXCEPT !.break_detector = r.bd,
                                      !.state = "AWAITING_RETEST",
                                      !.last_break_event = Some(StoredBreakEvent(r.event[1]))])
          [] st.state = "AWAITING_RETEST" ->
                 IF conf_type = None THEN Keep(st)
                 ELSE IF valid(details)
                 THEN Keep([st EXCEPT !.state = "IN_TRADE",
                                      !.active_trade = Some(signal(details, bar))])
                 ELSE Keep(TL_reset_state(st))
          [] OTHER -> Keep(st)

---------------------------------------------------------------------------
(* The drivers *)

\* HasPrevDay accepting any level at all.
HasPrevDay_AnyLevel(levels) == DOMAIN levels # {}

HasPrevDay(levels) == {"pdh", "pdl"} \subseteq DOMAIN levels

\* A daily reset that leaves the position of the day before in place.
DailyReset_KeepTrade(st, levels) ==
    LET r == [st EXCEPT !.daily_trade_status = NewDailyStatus,
                        !.state = "AWAITING_BREAK"]
    IN IF HasPrevDay(levels) THEN [r EXCEPT !.levels = levels] ELSE r

\* The per-symbol head of run_day_simulation: the daily reset, then the
\* levels of the day unless PDH or PDL is missing.
DailyReset(st, levels) ==
    LET r == [st EXCEPT !.daily_trade_status = NewDailyStatus,
                        !.state = "AWAITING_BREAK",
                        !.active_trade = None,
                        !.break_detector =
                            IF driver = "px" THEN BreakDetector_reset(@) ELSE @]
    IN IF HasPrevDay(levels) THEN [r EXCEPT !.levels = levels] ELSE r

\* main(): levels are calculated once, before the loop; each new date only
\* the daily trade status is reset.
LiveNewDay(st, levels) ==
    [st EXCEPT !.daily_trade_status = NewDailyStatus,
               !.levels = IF day = 0 THEN levels ELSE @]

\* Scenario A of the specification: the levels and the three bars.
ScenarioLevels == [pdh |-> 200, pdl |-> 180]
ScenarioBars ==
    << Shape(200, 202, 200, 202, 100, 196, 150, 100),
       Shape(202, 204, 199, 203, 100, 196, 150, 100),
       Shape(203, 204, 202, 204, 100, 196, 150, 100) >>

Off == 0 - 1

\* A run is one driver under the repository's configuration, or the replay
\* driver under the configuration of Scenario A.
Init ==
    /\ driver \in Drivers
    /\ cfg \in Configs
    /\ cfg = ScenarioCfg => driver = "bt"
    /\ phase = "idle"
    /\ day = 0
    /\ now = 1
    /\ dispatched = {}
    /\ included = {}
    /\ symbol_states = [s \in Symbols |-> NewSymbolState]
    /\ trades = <<>>
    /\ balance = 2 * InitialBalance
    /\ day_last = [s \in Symbols |-> None]
    /\ crashed = FALSE
    /\ cur = None
    /\ scen = Off
    /\ twin = [s \in Symbols |-> NewSymbolState]
    /\ all_data = {}
    /\ day_levels = None
    /\ call = None
    /\ rt = None

StartDay ==
    /\ ~crashed /\ phase = "idle" /\ day * Len(TimeGrid) < MaxBars
    /\ \E levels \in [Symbols -> LevelOutcomes] :
         /\ symbol_states' =
              [s \in Symbols |->
                  CASE driver \in {"bt", "px"} -> DailyReset(symbol_states[s], levels[s])
                    [] driver = "live" -> LiveNewDay(symbol_states[s], levels[s])
                    [] OTHER -> [symbol_states[s] EXCEPT
                                    !.levels = IF day = 0 THEN levels[s] ELSE @]]
         /\ included' = IF driver \in {"bt", "px"}
                        THEN {s \in Symbols : HasPrevDay(levels[s])}
                        ELSE Symbols
         /\ scen' = IF /\ day = 0 /\ driver = "bt" /\ cfg = ScenarioCfg
                       /\ \A s \in Symbols : levels[s] = ScenarioLevels
                    THEN 0 ELSE Off
    /\ phase' = IF included' = {} THEN "idle" ELSE "bars"
    /\ day' = day + 1
    /\ now' = 1
    /\ dispatched' = {}
    /\ day_last' = [s \in Symbols |-> None]
    /\ cur' = None
    /\ UNCHANGED <<driver, cfg, trades, balance, crashed>>
    /\ UNCHANGED aux

NextInOrder(s) ==
    \A i, j \in 1..Len(SymbolOrder) :
        (SymbolOrder[j] = s /\ i < j) => SymbolOrder[i] \in dispatched

Step(st, s, ts, bar, order_accepted) ==
    CASE driver = "bt" -> BT_bar(st, s, ts, bar)
      [] driver = "px" -> PX_bar(st, s, ts, bar)
      [] driver = "live" -> LIVE_bar(st, s, ts, bar, order_accepted)
      [] OTHER -> TL_process_bar(st, s, ts, bar)

\* One iteration of the bar loop: the next bar of the combined data.
Dispatch ==
    /\ ~crashed /\ phase = "bars"
    /\ \E s \in included \ dispatched, shape \in BarShapes, order_accepted \in BOOLEAN :
         LET ts == <<day, TimeGrid[now]>>
             bar == Bar(shape, ts)
             st == symbol_states[s]
             r == Step(st, s, ts, bar, order_accepted)
         IN /\ driver = "live" => NextInOrder(s)
            /\ symbol_states' = [symbol_states EXCEPT ![s] = r.st]
            /\ trades' = IF r.closed = None THEN trades
                         ELSE Append(trades, r.closed[1])
            /\ balance' = IF r.closed = None THEN balance
                          ELSE balance + r.closed[1].pnl_dollars
            /\ crashed' = r.crash
            /\ dispatched' = dispatched \cup {s}
            /\ day_last' = IF driver = "px"
                           THEN [day_last EXCEPT ![s] =
                                    IF r.st.state = "IN_TRADE" THEN Some(bar) ELSE None]
                           ELSE day_last
            /\ cur' = Some([symbol |-> s, latest_bar |-> bar,
                            current_state |-> st.state, trade |-> st.active_trade])
            /\ scen' = IF /\ scen # Off /\ scen < Len(ScenarioBars) /\ scen = now - 1
                          /\ shape = ScenarioBars[scen + 1]
                       THEN scen + 1 ELSE Off
    /\ UNCHANGED <<driver, cfg, phase, day, now, included>>
    /\ UNCHANGED aux

\* Timestamps of the data set consumed once the loop stands at `now` of `day`.
Consumed == (day - 1) * Len(TimeGrid) + now

DayExhausted == now = Len(TimeGrid) \/ Consumed = MaxBars

\* The loop moves to the next timestamp of the day.
Tick ==
    /\ ~crashed /\ phase = "bars"
    /\ dispatched = included
    /\ ~DayExhausted
    /\ now' = now + 1
    /\ dispatched' = {}
    /\ UNCHANGED <<driver, cfg, phase, day, included, symbol_states, trades,
                   balance, day_last, crashed, cur, scen>>
    /\ UNCHANGED aux

RECURSIVE EndOfDayFold(_, _, _, _)
EndOfDayFold(i, states, log, bal) ==
    IF i > Len(SymbolOrder) THEN [states |-> states, log |-> log, bal |-> bal]
    ELSE LET s == SymbolOrder[i]
             r == PX_end_of_day(states[s], day_last[s])
         IN IF r.closed = None THEN EndOfDayFold(i + 1, states, log, bal)
            ELSE EndOfDayFold(i + 1, [states EXCEPT ![s] = r.st],
                              Append(log, r.closed[1]),
                              bal + r.closed[1].pnl_dollars)

\* The bar loop of the day is exhausted.  Only BacktesterProjectX has
\* end-of-day position management.
EndDay ==
    /\ ~crashed /\ phase = "bars"
    /\ dispatched = included
    /\ DayExhausted
    /\ LET r == IF driver = "px" THEN EndOfDayFold(1, symbol_states, trades, balance)
                ELSE [states |-> symbol_states, log |-> trades, bal |-> balance]
       IN /\ symbol_states' = r.states
          /\ trades' = r.log
          /\ balance' = r.bal
    /\ phase' = "idle"
    /\ UNCHANGED <<driver, cfg, day, now, dispatched, included, day_last, crashed,
                   cur, scen>>
    /\ UNCHANGED aux

Next == StartDay \/ Dispatch \/ Tick \/ EndDay

Spec == Init /\ [][Next]_vars

---------------------------------------------------------------------------
(* data/level_calculator.py and its two callers *)

\* Bound: the historical data holds at most MaxData bars.
MaxData == 3

\* Minutes of the day that bound the calculator's windows.
RTHStart == 570
RTHEnd == 960
PremarketStart == 240
PremarketEnd == 569
\* The replay drivers' cutoff (09:30) and the days their slice looks back.
LevelCutoff == 570
SliceLookbackDays == 4

\* The bars the historical data may hold: a timestamp on either side of each
\* window boundary on each of three days, and a high and a low.  A low of 0
\* marks an invalid bar.
DataDays == 0..2
DataMinutes == {PremarketStart, PremarketEnd, LevelCutoff, RTHEnd, RTHEnd + 1}
DataPrices == {<<210, 190>>, <<230, 170>>, <<220, 0>>}
DataBars ==
    {[name |-> <<d, m>>, high |-> p[1], low |-> p[2]] :
        d \in DataDays, m \in DataMinutes, p \in DataPrices}

\* LevelCalculator.calculate_all_levels(intraday_data, current_simulation_date)
\* available_past_dates with the simulation date itself counted as past.
available_past_dates_Inclusive(data, date) ==
    {b.name[1] : b \in {x \in data : x.name[1] <= date}}

available_past_dates(data, date) == {b.name[1] : b \in {x \in data : x.name[1] < date}}

valid_rth_data(data, date_candidate) ==
    {b \in data : /\ b.name[1] = date_candidate
                  /\ b.name[2] >= RTHStart /\ b.name[2] <= RTHEnd
                  /\ b.low > 0}

valid_premarket_data(data, date) ==
    {b \in data : /\ b.name[1] = date
                  /\ b.name[2] >= PremarketStart /\ b.name[2] <= PremarketEnd
                  /\ b.low > 0}

calculate_all_levels(data, date) ==
    LET trading_days == {d \in available_past_dates(data, date) :
                            valid_rth_data(data, d) # {}}
        rth == IF trading_days = {} THEN {}
               ELSE valid_rth_data(data, SetMax(trading_days))
        pm == valid_premarket_data(data, date)
        prev == IF rth = {} THEN NoLevels
                ELSE [k \in {"pdh", "pdl"} |->
                         IF k = "pdh" THEN SetMax({b.high : b \in rth})
                         ELSE SetMin({b.low : b \in rth})]
        pre == IF pm = {} THEN NoLevels
               ELSE [k \in {"pmh", "pml"} |->
                        IF k = "pmh" THEN SetMax({b.high : b \in pm})
                        ELSE SetMin({b.low : b \in pm})]
    IN [k \in DOMAIN prev \cup DOMAIN pre |->
           IF k \in DOMAIN prev THEN prev[k] ELSE pre[k]]

\* Backtester.run_day_simulation: the slice handed to the calculator, and
\* the levels of the day (none when the slice is empty).
data_for_levels(data, date) ==
    {b \in data : /\ b.name[1] >= date - SliceLookbackDays
                  /\ After(<<date, LevelCutoff>>, b.name)}

BT_levels(data, date) ==
    IF data_for_levels(data, date) = {} THEN None
    ELSE Some(calculate_all_levels(data_for_levels(data, date), date))

\* main(): LevelDetector.update_levels on the fetched history; the
\* calculator's date defaults to today.
LIVE_levels(data, date) ==
    IF data = {} THEN None ELSE Some(calculate_all_levels(data, date))

LevelsInit ==
    /\ driver = "bt" /\ cfg = CodeCfg
    /\ phase = "idle" /\ day = 0 /\ now = 1
    /\ dispatched = {} /\ included = {}
    /\ symbol_states = [s \in Symbols |-> NewSymbolState]
    /\ trades = <<>> /\ balance = 2 * InitialBalance
    /\ day_last = [s \in Symbols |-> None]
    /\ crashed = FALSE /\ cur = None /\ scen = Off
    /\ twin = [s \in Symbols |-> NewSymbolState]
    /\ all_data = {}
    /\ day_levels = None
    /\ call = None
    /\ rt = None

run == <<driver, cfg, phase, day, now, dispatched, included, symbol_states,
         trades, balance, day_last, crashed, cur, scen, twin, call, rt>>

\* One more bar is present in the data the calculation will read.
AddBar ==
    /\ day_levels = None
    /\ call = None
    /\ Cardinality(all_data) < MaxData
    /\ \E b \in DataBars :
         /\ \A x \in all_data : x.name # b.name
         /\ all_data' = all_data \cup {b}
    /\ UNCHANGED <<day_levels, run>>

\* A replay driver calculates the levels of a day of its run.
ReplayLevels ==
    /\ day_levels = None
    /\ call = None
    /\ \E date \in DataDays :
         day_levels' = Some([mode |-> "replay", date |-> date,
                             levels |-> IF BT_levels(all_data, date) = None
                                        THEN NoLevels
                                        ELSE BT_levels(all_data, date)[1]])
    /\ UNCHANGED <<all_data, run>>

\* The live loop calculates its levels before its loop starts.
LiveLevels ==
    /\ day_levels = None
    /\ call = None
    /\ \E date \in DataDays :
         day_levels' = Some([mode |-> "live", date |-> date,
                             levels |-> IF LIVE_levels(all_data, date) = None
                                        THEN NoLevels
                                        ELSE LIVE_levels(all_data, date)[1]])
    /\ UNCHANGED <<all_data, run>>

LevelsNext == AddBar \/ ReplayLevels \/ LiveLevels

SpecLevels == LevelsInit /\ [][LevelsNext]_vars

---------------------------------------------------------------------------
(* The replay driver and the live loop side by side on the same bars *)

ParityInit ==
    /\ driver = "bt" /\ cfg = CodeCfg
    /\ phase = "idle" /\ day = 0 /\ now = 1
    /\ dispatched = {} /\ included = {}
    /\ symbol_states = [s \in Symbols |-> NewSymbolState]
    /\ trades = <<>> /\ balance = 2 * InitialBalance
    /\ day_last = [s \in Symbols |-> None]
    /\ crashed = FALSE /\ cur = None /\ scen = Off
    /\ twin = [s \in Symbols |-> NewSymbolState]
    /\ all_data = {}
    /\ day_levels = None
    /\ call = None
    /\ rt = None

\* Both drivers start the day with the same complete level set.
ParityStartDay ==
    /\ ~crashed /\ phase = "idle" /\ day * Len(TimeGrid) < MaxBars
    /\ \E levels \in {l \in LevelOutcomes : DOMAIN l = AllLevelKeys} :
         /\ symbol_states' = [s \in Symbols |-> DailyReset(symbol_states[s], levels)]
         /\ twin' = [s \in Symbols |-> LiveNewDay(twin[s], levels)]
    /\ included' = Symbols
    /\ phase' = "bars"
    /\ day' = day + 1
    /\ now' = 1
    /\ dispatched' = {}
    /\ cur' = None
    /\ UNCHANGED <<driver, cfg, trades, balance, day_last, crashed, scen,
                   all_data, day_levels, call, rt>>

\* Both drivers process the same bar.
ParityDispatch ==
    /\ ~crashed /\ phase = "bars"
    /\ \E s \in included \ dispatched, shape \in BarShapes, order_accepted \in BOOLEAN :
         LET ts == <<day, TimeGrid[now]>>
             bar == Bar(shape, ts)
             r == BT_bar(symbol_states[s], s, ts, bar)
             l == LIVE_bar(twin[s], s, ts, bar, order_accepted)
         IN /\ symbol_states' = [symbol_states EXCEPT ![s] = r.st]
            /\ twin' = [twin EXCEPT ![s] = l.st]
            /\ trades' = IF r.closed = None THEN trades
                         ELSE Append(trades, r.closed[1])
            /\ balance' = IF r.closed = None THEN balance
                          ELSE balance + r.closed[1].pnl_dollars
            /\ crashed' = l.crash
            /\ dispatched' = dispatched \cup {s}
            /\ cur' = Some([symbol |-> s, latest_bar |-> bar,
                            current_state |-> symbol_states[s].state,
                            trade |-> symbol_states[s].active_trade])
    /\ UNCHANGED <<driver, cfg, phase, day, now, included, day_last, scen,
                   all_data, day_levels, call, rt>>

ParityNext == ParityStartDay \/ ParityDispatch \/ Tick \/ EndDay

SpecParity == ParityInit /\ [][ParityNext]_vars

---------------------------------------------------------------------------
(* The risk functions called on their own *)

\* Bound: entry and stop lie at most MaxStopDistance half points apart.
MaxStopDistance == 60

\* The configurations the risk functions are called under: the two of the
\* drivers, one with another reward-to-risk ratio, and one with
\* RISK_DOLLAR_AMOUNT = None, where the budget is RISK_PER_TRADE of the
\* balance.
RiskConfigs ==
    Configs \cup {[CodeCfg EXCEPT !.name = "rrr3", !.take_profit_rrr = 3],
                  [CodeCfg EXCEPT !.name = "fraction", !.risk_dollar = None]}

\* Symbols of the calls: two configured ones, and one with no buffer and no
\* dollar value per point.
RiskSymbols == {"MNQ", "MES", "ES"}
RiskStops(entry) == {entry - d : d \in 0..MaxStopDistance} \cup
                    {entry + d : d \in 0..MaxStopDistance}
\* Account balances, in half dollars: 0, 2,000 and 50,000 dollars.
RiskBalances == {0, 4000, 100000}
RiskPivots == {None} \cup {Some(Bar(shape, <<1, MorningStart>>)) : shape \in BarShapes}

RiskInit ==
    /\ driver = "bt" /\ cfg \in RiskConfigs
    /\ phase = "idle" /\ day = 0 /\ now = 1
    /\ dispatched = {} /\ included = {}
    /\ symbol_states = [s \in Symbols |-> NewSymbolState]
    /\ trades = <<>> /\ balance = 2 * InitialBalance
    /\ day_last = [s \in Symbols |-> None]
    /\ crashed = FALSE /\ cur = None /\ scen = Off
    /\ twin = [s \in Symbols |-> NewSymbolState]
    /\ all_data = {}
    /\ day_levels = None
    /\ call = None
    /\ rt = None

rest == <<driver, cfg, phase, day, now, dispatched, included, symbol_states,
          trades, balance, day_last, crashed, cur, scen, twin, all_data,
          day_levels>>

CallStop ==
    /\ call = None
    /\ \E direction \in {"BUY", "SELL"}, pivot \in RiskPivots, symbol \in RiskSymbols :
         call' = Some([fn |-> "calculate_stop_from_candle",
                       signal_direction |-> direction, pivot_candle |-> pivot,
                       symbol |-> symbol,
                       result |-> calculate_stop_from_candle(direction, pivot, symbol)])
    /\ UNCHANGED <<rest, rt>>

CallTarget ==
    /\ call = None
    /\ \E direction \in {"BUY", "SELL"}, entry \in {200, 230} :
         \E stop \in RiskStops(entry) :
            call' = Some([fn |-> "set_profit_target",
                          entry_price |-> entry, stop_loss_price |-> stop,
                          signal_direction |-> direction,
                          result |-> set_profit_target(entry, stop, direction)])
    /\ UNCHANGED <<rest, rt>>

CallSize ==
    /\ call = None
    /\ \E account_balance \in RiskBalances, entry \in {200, 230},
          symbol \in RiskSymbols, is_high_conviction \in BOOLEAN :
         \E stop \in RiskStops(entry) :
            call' = Some([fn |-> "calculate_size",
                          account_balance |-> account_balance,
                          entry_price |-> entry, stop_loss_price |-> stop,
                          symbol |-> symbol,
                          is_high_conviction |-> is_high_conviction,
                          result |-> calculate_size(account_balance, entry, stop,
                                                    symbol, is_high_conviction)])
    /\ UNCHANGED <<rest, rt>>

\* The immediate-entry branch of BacktesterProjectX and of TradingLogic on a
\* break event flagged immediate_entry whose candle is the bar itself.  The
\* flag is an input: TradingLogic takes its detector as an argument, and the
\* repository's BreakDetector never sets it.
CallImmediate ==
    /\ call = None
    /\ \E who \in {"px", "logic"}, shape \in BarShapes, levels \in LevelOutcomes,
          level_name \in AllLevelKeys, high_conviction \in BOOLEAN,
          symbol \in {"MNQ", "MES"} :
         LET bar == Bar(shape, <<1, MorningStart>>)
             type == IF level_name \in {"pdh", "pmh"} THEN "up" ELSE "down"
             event == [type |-> type, level_name |-> level_name,
                       level_value |-> levels[level_name], candle |-> bar,
                       immediate_entry |-> TRUE, high_conviction |-> high_conviction]
             st == [NewSymbolState EXCEPT !.levels = levels]
             r == IF who = "px"
                  THEN PX_immediate_entry(st, symbol, bar.name, bar, NewBreakDetector, event)
                  ELSE TL_immediate_entry(st, symbol, bar, NewBreakDetector, event, levels)
         IN /\ level_name \in DOMAIN levels
            /\ IF type = "up" THEN bar.close > levels[level_name]
                              ELSE bar.close < levels[level_name]
            /\ call' = Some([fn |-> "immediate_entry", who |-> who, symbol |-> symbol,
                             latest_bar |-> bar, break_event |-> event,
                             levels |-> levels, result |-> r.st])
    /\ UNCHANGED <<rest, rt>>

\* PatternValidator.validate_signal called with the context Backtester
\* builds: the break's candle, the entry bar, the day's levels and the
\* broken level.
CallValidate ==
    /\ call = None
    /\ \E direction \in {"BUY", "SELL"}, breakout \in BarShapes, entry \in BarShapes,
          levels \in LevelOutcomes \cup {NoLevels}, symbol \in {"MNQ", "MES"},
          level_broken \in {180, 200} :
         LET context == [symbol |-> symbol,
                         breakout_candle |-> Bar(breakout, <<1, MorningStart>>),
                         latest_bar |-> Bar(entry, <<1, MorningStart + 10>>),
                         level_broken |-> level_broken, levels |-> levels]
         IN call' = Some([fn |-> "validate_signal", signal_direction |-> direction,
                          context |-> context,
                          result |-> validate_signal(direction, context)])
    /\ UNCHANGED <<rest, rt>>

\* One call of the retest detector with the three values it returns.
CallRetest ==
    /\ call = None
    /\ \E symbol \in {"MNQ", "MES"}, shape \in BarShapes, level \in {180, 200},
          break_direction \in {"up", "down"} :
         LET latest_bar == Bar(shape, <<1, MorningStart>>)
             confluence_type == check_for_retest(symbol, latest_bar, level, break_direction)
         IN call' = Some([fn |-> "check_for_retest", symbol |-> symbol,
                          latest_bar |-> latest_bar, broken_level_price |-> level,
                          break_direction |-> break_direction,
                          result |-> IF confluence_type = None
                                     THEN <<None, None, None>>
                                     ELSE <<Some(latest_bar), Some(latest_bar),
                                            confluence_type>>])
    /\ UNCHANGED <<rest, rt>>

\* One cycle of main() for a symbol in AWAITING_RETEST: the stored break
\* event, the latest bar, the broker's answer.  The break's candle has a
\* volume over or under MIN_BREAKOUT_VOLUME.
CallLiveRetest ==
    /\ call = None
    /\ cfg = CodeCfg
    /\ \E symbol \in {"MNQ"}, break_shape \in BarShapes, volume \in {50, 100},
          shape \in BarShapes, level_name \in {"pmh", "pml"},
          order_accepted \in BOOLEAN :
         LET levels == [pdh |-> 208, pdl |-> 170, pmh |-> 200, pml |-> 180]
             type == IF level_name = "pmh" THEN "up" ELSE "down"
             candle == [Bar(break_shape, <<1, MorningStart>>) EXCEPT !.volume = volume]
             event == StoredBreakEvent([type |-> type, level_name |-> level_name,
                                        level_value |-> levels[level_name],
                                        candle |-> candle])
             latest_bar == Bar(shape, <<1, MorningStart + 10>>)
             st == [NewSymbolState EXCEPT !.levels = levels,
                                          !.state = "AWAITING_RETEST",
                                          !.last_break_event = Some(event),
                                          !.retest_timeout_stamp = Some(candle.name)]
             r == LIVE_awaiting_retest(st, symbol, latest_bar.name, latest_bar,
                                       order_accepted)
         IN /\ IF type = "up" THEN candle.close > levels[level_name]
                              ELSE candle.close < levels[level_name]
            /\ call' = Some([fn |-> "main_awaiting_retest", symbol |-> symbol,
                             latest_bar |-> latest_bar, break_event |-> event,
                             order_accepted |-> order_accepted,
                             result |-> r.st, crash |-> r.crash])
    /\ UNCHANGED <<rest, rt>>

\* Bound: a break detector is called on at most MaxBreakCalls bars.
MaxBreakCalls == 3

\* A detector fed bar after bar, as a driver in AWAITING_BREAK feeds it:
\* closes below, inside and above the range, the 200-period average
\* unavailable, under or over the close.  The record keeps the bars, the
\* result of each call and the detector's state after the last one.
CallBreak ==
    /\ \/ call = None
       \/ /\ call # None /\ call[1].fn = "check_for_break"
          /\ Len(call[1].bars) < MaxBreakCalls
    /\ \E close \in {168, 190, 202, 206}, ema_200 \in {0, 170, 204},
          first_levels \in LevelOutcomes :
         LET before == IF call = None
                       THEN [levels |-> first_levels, bars |-> <<>>, results |-> <<>>,
                             break_detector |-> NewBreakDetector]
                       ELSE call[1]
             latest_bar == Bar(Shape(close, close + 2, close - 2, close, 100, 0, 0, ema_200),
                               <<1, MorningStart + Len(before.bars)>>)
             r == check_for_break(before.break_detector, latest_bar, before.levels)
         IN /\ call # None => first_levels = call[1].levels
            /\ call' = Some([fn |-> "check_for_break", levels |-> before.levels,
                             bars |-> Append(before.bars, latest_bar),
                             results |-> Append(before.results, r.event),
                             break_detector |-> r.bd])
    /\ UNCHANGED <<rest, rt>>

\* Bound: a signal generator is called on at most MaxSignalCalls bars.
MaxSignalCalls == 3

NewSignalGenerator == [active_break_info |-> None, break_detector |-> NewBreakDetector]

\* A generator that keeps the active break when it signals.
process_bar_KeepBreak(sg, symbol, bar, levels) ==
    IF sg.active_break_info = None
    THEN LET r == check_for_break(sg.break_detector, bar, levels)
         IN [sg |-> [break_detector |-> r.bd,
                     active_break_info |->
                        IF r.event = None THEN None
                        ELSE Some([break_event |-> r.event[1].type,
                                   broken_level |-> r.event[1].level_value,
                                   breakout_candle |-> r.event[1].candle,
                                   breakout_time |-> bar.name])],
             result |-> [side |-> "NONE"]]
    ELSE LET info == sg.active_break_info[1]
             break_direction == IF info.break_event = "up" THEN "up" ELSE "down"
         IN IF After(bar.name, AddMinutes(info.breakout_time, cfg.retest_timeout))
            THEN [sg |-> [sg EXCEPT !.active_break_info = None],
                  result |-> [side |-> "RETEST_TIMEOUT"]]
            ELSE IF check_for_retest(symbol, bar, info.broken_level, break_direction) # None
            THEN [sg |-> sg,
                  result |-> [side |-> IF break_direction = "up" THEN "BUY" ELSE "SELL"]]
            ELSE [sg |-> sg, result |-> [side |-> "NONE"]]

\* SignalGenerator.process_bar: the generator after the call and the signal
\* it returns.
process_bar(sg, symbol, bar, levels) ==
    IF sg.active_break_info = None
    THEN LET r == check_for_break(sg.break_detector, bar, levels)
         IN [sg |-> [break_detector |-> r.bd,
                     active_break_info |->
                        IF r.event = None THEN None
                        ELSE Some([break_event |-> r.event[1].type,
                                   broken_level |-> r.event[1].level_value,
                                   breakout_candle |-> r.event[1].candle,
                                   breakout_time |-> bar.name])],
             result |-> [side |-> "NONE"]]
    ELSE LET info == sg.active_break_info[1]
             break_direction == IF info.break_event = "up" THEN "up" ELSE "down"
             confluence_type == check_for_retest(symbol, bar, info.broken_level,
                                                 break_direction)
         IN IF After(bar.name, AddMinutes(info.breakout_time, cfg.retest_timeout))
            THEN [sg |-> [sg EXCEPT !.active_break_info = None],
                  result |-> [side |-> "RETEST_TIMEOUT",
                              timed_out_level |-> info.broken_level]]
            ELSE IF confluence_type # None
            THEN [sg |-> [sg EXCEPT !.active_break_info = None],
                  result |-> [side |-> IF break_direction = "up" THEN "BUY" ELSE "SELL",
                              price |-> bar.close,
                              broken_level |-> info.broken_level,
                              breakout_candle |-> info.breakout_candle,
                              confluence_type |-> confluence_type]]
            ELSE [sg |-> sg, result |-> [side |-> "NONE"]]

\* A generator fed bar after bar, ten or seventy minutes apart.  The record
\* keeps the bars, the active break before each call, the signal of each
\* call and the generator after the last one.
CallSignal ==
    /\ \/ call = None
       \/ /\ call # None /\ call[1].fn = "process_bar"
          /\ Len(call[1].bars) < MaxSignalCalls
    /\ \E shape \in BarShapes, minutes \in {10, 70} :
         LET before == IF call = None
                       THEN [bars |-> <<>>, active |-> <<>>, results |-> <<>>,
                             generator |-> NewSignalGenerator]
                       ELSE call[1]
             levels == [pdh |-> 200, pdl |-> 180]
             name == IF before.bars = <<>> THEN <<1, MorningStart>>
                     ELSE AddMinutes(before.bars[Len(before.bars)].name, minutes)
             bar == Bar(shape, name)
             r == process_bar(before.generator, "MNQ", bar, levels)
         IN /\ before.bars = <<>> => minutes = 10
            /\ call' = Some([fn |-> "process_bar", symbol |-> "MNQ",
                             bars |-> Append(before.bars, bar),
                             active |-> Append(before.active,
                                               before.generator.active_break_info),
                             results |-> Append(before.results, r.result),
                             generator |-> r.sg])
    /\ UNCHANGED <<rest, rt>>

\* BacktesterProjectX on the last bars of a symbol's day: the symbol waits
\* for confirmation, the next bar is processed, and the day's data either
\* ends with that bar or holds one more bar at 15:00; then the end-of-day
\* position management runs.  The record keeps the trades that were closed.
CallEndOfDay ==
    /\ call = None
    /\ cfg = CodeCfg
    /\ \E level_name \in {"pdh", "pdl"}, break_shape \in BarShapes,
          retest_shape \in BarShapes, shape \in BarShapes,
          later \in {None} \cup {Some(sh) : sh \in BarShapes} :
         LET levels == [pdh |-> 200, pdl |-> 180]
             type == IF level_name = "pdh" THEN "up" ELSE "down"
             candle == Bar(break_shape, <<1, MorningStart>>)
             event == StoredBreakEvent([type |-> type, level_name |-> level_name,
                                        level_value |-> levels[level_name],
                                        candle |-> candle])
             pivot == Bar(retest_shape, <<1, MorningStart + 10>>)
             confluence_type == check_for_retest("MNQ", pivot, levels[level_name], type)
             st == [NewSymbolState EXCEPT
                       !.levels = levels,
                       !.state = "AWAITING_CONFIRMATION",
                       !.last_break_event = Some(event),
                       !.retest_timeout_stamp =
                           Some(AddMinutes(candle.name, cfg.retest_timeout)),
                       !.retest_context =
                           Some([pivot_candle |-> pivot, break_event |-> event,
                                 rejection_candle |-> pivot,
                                 confluence_type |-> confluence_type])]
             latest_bar == Bar(shape, <<1, MorningStart + 20>>)
             first == PX_bar(st, "MNQ", latest_bar.name, latest_bar)
             last_bar_of_day == IF later = None THEN latest_bar
                                ELSE Bar(later[1], <<1, AfternoonStart + 60>>)
             second == IF later = None THEN Keep(first.st)
                       ELSE PX_bar(first.st, "MNQ", last_bar_of_day.name, last_bar_of_day)
             eod == PX_end_of_day(second.st, Some(last_bar_of_day))
         IN /\ IF type = "up" THEN candle.close > levels[level_name]
                              ELSE candle.close < levels[level_name]
            /\ confluence_type # None
            /\ ~first.crash /\ ~second.crash
            /\ call' = Some([fn |-> "end_of_day", latest_bar |-> latest_bar,
                             last_bar_of_day |-> last_bar_of_day,
                             entered |-> first.st.state = "IN_TRADE",
                             closed |-> (IF second.closed = None THEN <<>>
                                         ELSE <<second.closed[1]>>)
                                        \o (IF eod.closed = None THEN <<>>
                                            ELSE <<eod.closed[1]>>)])
    /\ UNCHANGED <<rest, rt>>

RiskNext ==
    \/ CallStop \/ CallTarget \/ CallSize \/ CallImmediate \/ CallValidate
    \/ CallBreak \/ CallRetest \/ CallLiveRetest \/ CallSignal \/ CallEndOfDay

SpecRisk == RiskInit /\ [][RiskNext]_vars

---------------------------------------------------------------------------
(* Two symbols under Backtester and under the main() loop *)

\* Bound: the data set holds at most MaxMultiBars timestamps.
MaxMultiBars == 4

\* TRADABLE_SYMBOLS, in the order the drivers loop over them.
MultiOrder == <<"MNQ", "MES">>
MultiSymbols == {MultiOrder[i] : i \in 1..Len(MultiOrder)}
MultiGrid == <<570, 580, 590>>

\* Bars of the two symbols: a bearish bar closing at 84.0, a bar that pops
\* to 90.5 and rejects, and the same with a close at 15.0 (a stop too far
\* away for one MES contract).
MultiShapes ==
    { Shape(172, 174, 166, 168, 100, 184, 300, 400),
      Shape(177, 181, 170, 172, 100, 184, 300, 400),
      Shape(177, 181, 20, 30, 100, 184, 300, 400) }

\* Backtester.run starts by loading every symbol's data; main() loads
\* inside its loop.
MultiInit ==
    /\ driver \in {"bt", "live"} /\ cfg = CodeCfg
    /\ phase = IF driver = "bt" THEN "fetch" ELSE "idle"
    /\ day = 0 /\ now = 1
    /\ dispatched = {} /\ included = {}
    /\ symbol_states = [s \in MultiSymbols |-> NewSymbolState]
    /\ trades = <<>> /\ balance = 2 * InitialBalance
    /\ day_last = [s \in MultiSymbols |-> None]
    /\ crashed = FALSE /\ cur = None /\ scen = Off
    /\ twin = [s \in MultiSymbols |-> NewSymbolState]
    /\ all_data = [s \in {} |-> TRUE]
    /\ day_levels = None
    /\ call = None
    /\ rt = None

\* Backtester.run, the loading loop: the first k symbols load; when a
\* symbol's data is missing the method returns.
MultiFetch ==
    /\ phase = "fetch"
    /\ \E k \in 0..Len(MultiOrder) :
         /\ all_data' = [s \in {MultiOrder[i] : i \in 1..k} |-> TRUE]
         /\ phase' = IF k = Len(MultiOrder) THEN "idle" ELSE "aborted"
    /\ UNCHANGED <<driver, cfg, day, now, dispatched, included, symbol_states,
                   trades, balance, day_last, crashed, cur, scen, twin,
                   day_levels, call, rt>>

\* The head of run_day_simulation, and the new date of main().
MultiStartDay ==
    /\ ~crashed /\ phase = "idle" /\ day * Len(MultiGrid) < MaxMultiBars
    /\ \E levels \in [MultiSymbols -> LevelOutcomes] :
         /\ symbol_states' =
              [s \in MultiSymbols |->
                  IF driver = "bt" THEN DailyReset(symbol_states[s], levels[s])
                  ELSE LiveNewDay(symbol_states[s], levels[s])]
         /\ included' = IF driver = "bt"
                        THEN {s \in MultiSymbols : HasPrevDay(levels[s])}
                        ELSE MultiSymbols
    /\ phase' = IF included' = {} THEN "idle" ELSE "bars"
    /\ day' = day + 1
    /\ now' = 1
    /\ dispatched' = {}
    /\ cur' = None
    /\ UNCHANGED <<driver, cfg, trades, balance, day_last, crashed, scen>>
    /\ UNCHANGED aux
\* A bar loop whose symbols share one state field.
MultiDispatch_SharedState ==
    /\ ~crashed /\ phase = "bars"
    /\ \E s \in included \ dispatched, shape \in MultiShapes,
          order_accepted \in BOOLEAN, fetched \in BOOLEAN :
         LET ts == <<day, MultiGrid[now]>>
             bar == Bar(shape, ts)
             st == symbol_states[s]
             r == IF fetched THEN Step(st, s, ts, bar, order_accepted) ELSE Keep(st)
         IN /\ driver = "bt" => (fetched /\ order_accepted)
            /\ driver = "live" =>
                 \A i, j \in 1..Len(MultiOrder) :
                     (MultiOrder[j] = s /\ i < j) => MultiOrder[i] \in dispatched
            /\ symbol_states' = [x \in DOMAIN symbol_states |->
                                    IF x = s THEN r.st
                                    ELSE [symbol_states[x] EXCEPT !.state = r.st.state]]
            /\ trades' = IF r.closed = None THEN trades
                         ELSE Append(trades, r.closed[1])
            /\ balance' = IF r.closed = None THEN balance
                          ELSE balance + r.closed[1].pnl_dollars
            /\ crashed' = r.crash
            /\ dispatched' = dispatched \cup {s}
            /\ cur' = IF fetched
                      THEN Some([symbol |-> s, latest_bar |-> bar,
                                 current_state |-> st.state, trade |-> st.active_trade])
                      ELSE cur
    /\ UNCHANGED <<driver, cfg, phase, day, now, included, day_last, scen>>
    /\ UNCHANGED aux

\* One iteration of the bar loop.  main() takes the symbols in order and
\* skips the cycle of a symbol whose bars cannot be fetched.
MultiDispatch ==
    /\ ~crashed /\ phase = "bars"
    /\ \E s \in included \ dispatched, shape \in MultiShapes,
          order_accepted \in BOOLEAN, fetched \in BOOLEAN :
         LET ts == <<day, MultiGrid[now]>>
             bar == Bar(shape, ts)
             st == symbol_states[s]
             r == IF fetched THEN Step(st, s, ts, bar, order_accepted) ELSE Keep(st)
         IN /\ driver = "bt" => (fetched /\ order_accepted)
            /\ driver = "live" =>
                 \A i, j \in 1..Len(MultiOrder) :
                     (MultiOrder[j] = s /\ i < j) => MultiOrder[i] \in dispatched
            /\ symbol_states' = [symbol_states EXCEPT ![s] = r.st]
            /\ trades' = IF r.closed = None THEN trades
                         ELSE Append(trades, r.closed[1])
            /\ balance' = IF r.closed = None THEN balance
                          ELSE balance + r.closed[1].pnl_dollars
            /\ crashed' = r.crash
            /\ dispatched' = dispatched \cup {s}
            /\ cur' = IF fetched
                      THEN Some([symbol |-> s, latest_bar |-> bar,
                                 current_state |-> st.state, trade |-> st.active_trade])
                      ELSE cur
    /\ UNCHANGED <<driver, cfg, phase, day, now, included, day_last, scen>>
    /\ UNCHANGED aux

MultiDayExhausted ==
    now = Len(MultiGrid) \/ (day - 1) * Len(MultiGrid) + now = MaxMultiBars

\* A loop that takes the same timestamp again.
MultiTick_Stay ==
    /\ ~crashed /\ phase = "bars"
    /\ dispatched = included
    /\ ~MultiDayExhausted
    /\ now' = now
    /\ dispatched' = {}
    /\ UNCHANGED <<driver, cfg, phase, day, included, symbol_states, trades,
                   balance, day_last, crashed, cur, scen>>
    /\ UNCHANGED aux

MultiTick ==
    /\ ~crashed /\ phase = "bars"
    /\ dispatched = included
    /\ ~MultiDayExhausted
    /\ now' = now + 1
    /\ dispatched' = {}
    /\ UNCHANGED <<driver, cfg, phase, day, included, symbol_states, trades,
                   balance, day_last, crashed, cur, scen>>
    /\ UNCHANGED aux

\* The bar loop of the day is exhausted; neither driver manages positions
\* at the end of the day.
MultiEndDay ==
    /\ ~crashed /\ phase = "bars"
    /\ dispatched = included
    /\ MultiDayExhausted
    /\ phase' = "idle"
    /\ UNCHANGED <<driver, cfg, day, now, dispatched, included, symbol_states,
                   trades, balance, day_last, crashed, cur, scen>>
    /\ UNCHANGED aux

MultiNext == MultiFetch \/ MultiStartDay \/ MultiDispatch \/ MultiTick \/ MultiEndDay

SpecMulti == MultiInit /\ [][MultiNext]_vars

---------------------------------------------------------------------------
(* The real-time feed: RealtimeManager, EventBus, BarAggregator *)

\* Bound: the market hub delivers at most MaxTicks trade events.
MaxTicks == 3

\* BarAggregator._handle_trade_event with the one-minute timeframe, on the
\* current bar of the contract as it was read: the bars to publish as
\* NEW_BAR_CLOSED and the bar to store.
_handle_trade_event(current_bar, event_data) ==
    LET price == event_data.price
        size == event_data.size
        bar_start_time == (event_data.timestamp \div 60) * 60
    IN IF current_bar = None \/ bar_start_time > current_bar[1].timestamp
       THEN [publish |-> IF current_bar # None
                         THEN << <<event_data.contractId, current_bar[1]>> >>
                         ELSE <<>>,
             bar |-> [timestamp |-> bar_start_time, open |-> price, high |-> price,
                      low |-> price, close |-> price, volume |-> size]]
       ELSE [publish |-> <<>>,
             bar |-> [current_bar[1] EXCEPT
                         !.high = IF price > @ THEN price ELSE @,
                         !.low = IF price < @ THEN price ELSE @,
                         !.close = price,
                         !.volume = @ + size]]

\* RealtimeManager.start and BarAggregator.__init__: no bar under
\* construction, nothing published, no handler running; main() has every
\* symbol in AWAITING_BREAK.
RtInit ==
    /\ driver = "live" /\ cfg = CodeCfg
    /\ phase = "idle" /\ day = 0 /\ now = 1
    /\ dispatched = {} /\ included = {}
    /\ symbol_states = [s \in MultiSymbols |-> NewSymbolState]
    /\ trades = <<>> /\ balance = 2 * InitialBalance
    /\ day_last = [s \in MultiSymbols |-> None]
    /\ crashed = FALSE /\ cur = None /\ scen = Off
    /\ twin = [s \in MultiSymbols |-> NewSymbolState]
    /\ all_data = {}
    /\ day_levels = None
    /\ call = None
    /\ rt = Some([arrived |-> <<>>, applied |-> <<>>, handling |-> {},
                  current_bars |-> [c \in MultiSymbols |-> None],
                  published |-> <<>>,
                  state |-> [s \in MultiSymbols |-> "AWAITING_BREAK"],
                  main |-> None])

\* A handler that starts while another one runs: callbacks on two threads.
RtOnMarketTrade_Reentrant ==
    /\ Len(rt[1].arrived) < MaxTicks
    /\ \E event_data \in [contractId : MultiSymbols, price : {200, 204},
                         size : {1}, timestamp : {10, 70}] :
         rt' = Some([rt[1] EXCEPT
                       !.arrived = Append(@, event_data),
                       !.handling = @ \cup
                           {[event_data |-> event_data,
                             current_bar |-> rt[1].current_bars[event_data.contractId]]}])
    /\ UNCHANGED <<rest, call>>

\* The market hub's callback on the event loop's thread, for a trade event
\* (contract, price, size 1, timestamp in seconds; the feed may deliver an
\* older timestamp after a newer one): _on_market_trade
\* publishes GATEWAY_MARKET_TRADE, EventBus.publish calls the aggregator's
\* handler, which reads the contract's current bar.  The loop runs one
\* callback at a time and the handler never yields.
RtOnMarketTrade ==
    /\ rt[1].handling = {}
    /\ Len(rt[1].arrived) < MaxTicks
    /\ \E event_data \in [contractId : MultiSymbols, price : {200, 204},
                         size : {1}, timestamp : {10, 70}] :
         rt' = Some([rt[1] EXCEPT
                       !.arrived = Append(@, event_data),
                       !.handling =
                           {[event_data |-> event_data,
                             current_bar |-> rt[1].current_bars[event_data.contractId]]}])
    /\ UNCHANGED <<rest, call>>

\* The handler publishes the closed bar, stores the bar it built from the
\* one it read, and returns.
RtHandlerWrites ==
    /\ \E h \in rt[1].handling :
         LET r == _handle_trade_event(h.current_bar, h.event_data)
         IN rt' = Some([rt[1] EXCEPT
                          !.handling = @ \ {h},
                          !.applied = Append(@, h.event_data),
                          !.published = @ \o r.publish,
                          !.current_bars[h.event_data.contractId] = Some(r.bar)])
    /\ UNCHANGED <<rest, call>>

\* main(), one symbol of one cycle: the state is read at the top of the
\* cycle...
RtMainReads ==
    /\ rt[1].main = None
    /\ \E s \in MultiSymbols :
         rt' = Some([rt[1] EXCEPT
                       !.main = Some([symbol |-> s, current_state |-> rt[1].state[s]])])
    /\ UNCHANGED <<rest, call>>

\* ... and written by the branch of the state machine that was taken.
RtMainWrites ==
    /\ rt[1].main # None
    /\ LET current_state == rt[1].main[1].current_state
           successors ==
               CASE current_state = "AWAITING_BREAK" -> {"AWAITING_BREAK", "AWAITING_RETEST"}
                 [] current_state = "AWAITING_RETEST" ->
                        {"AWAITING_RETEST", "AWAITING_BREAK", "IN_TRADE"}
                 [] OTHER -> {"IN_TRADE", "AWAITING_BREAK"}
       IN \E next_state \in successors :
            rt' = Some([rt[1] EXCEPT !.state[rt[1].main[1].symbol] = next_state,
                                     !.main = None])
    /\ UNCHANGED <<rest, call>>

RtNext == RtOnMarketTrade \/ RtHandlerWrites \/ RtMainReads \/ RtMainWrites

SpecRealtime == RtInit /\ [][RtNext]_vars

---------------------------------------------------------------------------
(* BrokerInterface and OrderManager (src/execution).  The state is held in *)
(* call: the call stack of BrokerInterface, the token, and the orders that *)
(* the broker holds for the account.                                       *)

\* Bound: the interpreter's recursion limit, in frames of _make_request and
\* _authenticate; a call beyond it raises RecursionError, which no handler
\* of BrokerInterface catches.
MaxDepth == 6
\* Bound: orders placed in one run.
MaxOrders == 2

Endpoints == {"order/place", "order/cancel", "order/status"}
StatusCodes == {200, 401, 500}

Frame(fn, pc) == [fn |-> fn, pc |-> pc]
Top(br) == br.stack[Len(br.stack)]
Pop(br, ret) == [br EXCEPT !.stack = SubSeq(@, 1, Len(@) - 1), !.ret = ret]
SetPc(br, pc) == [br EXCEPT !.stack[Len(br.stack)].pc = pc]
\* A call made by the top frame, which continues at pc when it returns.
Push(br, pc, fn) ==
    IF Len(br.stack) >= MaxDepth
    THEN [br EXCEPT !.stack = <<>>, !.ret = "RecursionError", !.raised = TRUE]
    ELSE [SetPc(br, pc) EXCEPT !.stack = Append(@, Frame(fn, "start"))]

BrInit ==
    /\ driver = "live" /\ cfg = CodeCfg
    /\ phase = "idle" /\ day = 0 /\ now = 1
    /\ dispatched = {} /\ included = {}
    /\ symbol_states = [s \in MultiSymbols |-> NewSymbolState]
    /\ trades = <<>> /\ balance = 2 * InitialBalance
    /\ day_last = [s \in MultiSymbols |-> None]
    /\ crashed = FALSE /\ cur = None /\ scen = Off
    /\ twin = [s \in MultiSymbols |-> NewSymbolState]
    /\ all_data = {}
    /\ day_levels = None
    /\ rt = None
    /\ \E valid \in BOOLEAN :
          call = Some([fn |-> "broker", stack |-> <<>>, ret |-> "None",
                       token_valid |-> valid, reauths |-> 0, sent |-> 0,
                       raised |-> FALSE, endpoint |-> "order/status",
                       working |-> {}, active_trade |-> None,
                       requests |-> <<>>, placed |-> 0])

\* One step of the frame of _make_request on top of the stack.
_make_request(br, status) ==
    LET pc == Top(br).pc
        outer == Len(br.stack) = 1
        send == [br EXCEPT !.sent = IF outer THEN @ + 1 ELSE @]
        result == IF status = 200 THEN "json" ELSE "None"
    IN CASE pc = "start" ->
              IF br.token_valid THEN SetPc(br, "send")
              ELSE Push(br, "authenticated", "_authenticate")
         [] pc = "authenticated" ->
              IF br.ret = "True" THEN SetPc(br, "send") ELSE Pop(br, "None")
         [] pc = "send" ->
              IF status = 401
              THEN Push([send EXCEPT !.reauths = @ + 1], "reauthenticated", "_authenticate")
              ELSE Pop(send, result)
         [] pc = "reauthenticated" ->
              IF br.ret = "True" THEN Pop(send, result) ELSE Pop(br, "None")

\* One step of the frame of _authenticate on top of the stack; the account
\* lookup of _initialize_broker_details is a nested _make_request.
_authenticate(br, login_ok) ==
    LET pc == Top(br).pc
    IN CASE pc = "start" ->
              IF login_ok
              THEN Push([br EXCEPT !.token_valid = TRUE], "initialized", "_make_request")
              ELSE Pop(br, "False")
         [] pc = "initialized" -> Pop(br, "True")

\* A caller invokes _make_request; the token may have expired meanwhile.
BrCall ==
    /\ call # None /\ call[1].stack = <<>>
    /\ \E endpoint \in Endpoints, valid \in BOOLEAN :
          call' = Some([call[1] EXCEPT
                          !.stack = <<Frame("_make_request", "start")>>,
                          !.endpoint = endpoint,
                          !.token_valid = @ /\ valid,
                          !.reauths = 0, !.sent = 0, !.raised = FALSE,
                          !.ret = "None"])
    /\ UNCHANGED <<rest, rt>>

BrMakeRequest ==
    /\ call # None /\ call[1].stack # <<>>
    /\ Top(call[1]).fn = "_make_request"
    /\ \E status \in StatusCodes : call' = Some(_make_request(call[1], status))
    /\ UNCHANGED <<rest, rt>>

BrAuthenticate ==
    /\ call # None /\ call[1].stack # <<>>
    /\ Top(call[1]).fn = "_authenticate"
    /\ \E login_ok \in BOOLEAN : call' = Some(_authenticate(call[1], login_ok))
    /\ UNCHANGED <<rest, rt>>

\* OrderManager.cancel_order: the requests it sends and the orders it leaves
\* in active_orders; broker_ok is the broker's answer to order/cancel.
cancel_order(active_orders, order_id, broker_ok) ==
    IF order_id = None \/ order_id[1] \notin active_orders
    THEN [success |-> FALSE, requests |-> <<>>, active_orders |-> active_orders]
    ELSE [success |-> broker_ok, requests |-> <<"order/cancel">>,
          active_orders |-> IF broker_ok THEN active_orders \ {order_id[1]}
                            ELSE active_orders]

\* OrderManager.close_position on an instance whose book is active_orders.
close_position(active_orders, original_order_id, cancel_ok) ==
    LET cancelled == cancel_order(active_orders, original_order_id, cancel_ok)
    IN [requests |-> cancelled.requests \o <<"order/place">>,
        cancelled |-> IF cancelled.success THEN {original_order_id[1]} ELSE {}]

\* main() opens a position: a new OrderManager places the bracket order.
OmExecuteTrade ==
    /\ call # None /\ call[1].stack = <<>>
    /\ call[1].active_trade = None
    /\ call[1].placed < MaxOrders
    /\ \E order_id \in {None, Some(call[1].placed + 1)} :
          call' = Some([call[1] EXCEPT
                          !.requests = <<"order/place">>,
                          !.placed = IF order_id = None THEN @ ELSE @ + 1,
                          !.working = IF order_id = None THEN @ ELSE @ \cup {order_id[1]},
                          !.active_trade = order_id])
    /\ UNCHANGED <<rest, rt>>

\* main() leaves a position on the EMA exit: a new OrderManager, whose
\* active_orders is empty, closes it.
OmClosePosition ==
    /\ call # None /\ call[1].stack = <<>>
    /\ call[1].active_trade # None
    /\ \E cancel_ok \in BOOLEAN :
          LET done == close_position({}, call[1].active_trade, cancel_ok)
          IN call' = Some([call[1] EXCEPT
                             !.requests = done.requests,
                             !.working = @ \ done.cancelled,
                             !.active_trade = None])
    /\ UNCHANGED <<rest, rt>>

BrNext == BrCall \/ BrMakeRequest \/ BrAuthenticate \/ OmExecuteTrade \/ OmClosePosition

SpecBroker == BrInit /\ [][BrNext]_vars

---------------------------------------------------------------------------
(* Properties of the drivers *)

Replay == driver \in {"bt", "px"}

\* The exit reason of a closed trade, under either replay driver's key.
ExitReasonOf(closed) ==
    IF "exit_reason" \in DOMAIN closed THEN closed.exit_reason
    ELSE closed.reason_for_exit

\* Two records of a symbol's active trade are the same position.  The live
\* loop rewrites the status of its position between ACTIVE and
\* EMA_PROBATION; the other drivers never touch an open position.
SamePosition(a, b) ==
    IF driver = "live"
    THEN /\ a.order_id = b.order_id /\ a.side = b.side
         /\ a.quantity = b.quantity /\ a.entry_price = b.entry_price
    ELSE a = b

\* C1: for every symbol at most one Active position exists: while a symbol
\* holds a position no step of any driver puts a second position in its
\* place; a position is opened only when the symbol holds none.
C1_OneActivePosition ==
    [][\A s \in Symbols :
          (symbol_states[s].active_trade # None
             /\ symbol_states'[s].active_trade # None)
          => SamePosition(symbol_states[s].active_trade[1],
                          symbol_states'[s].active_trade[1])]_vars

\* C1 witness: a bar was processed while the symbol held a position, the bar
\* qualified as a confirmation of the stored retest, and the position is
\* still the one that was held.
C1_Witness ==
    /\ driver = "px" /\ cur # None
    /\ cur[1].current_state = "IN_TRADE" /\ cur[1].trade # None
    /\ LET st == symbol_states[cur[1].symbol]
       IN /\ st.state = "IN_TRADE"
          /\ st.active_trade = cur[1].trade
          /\ st.retest_context # None
          /\ LET rc == st.retest_context[1]
             IN PX_is_confirmed(BreakDir(rc.break_event), cur[1].latest_bar,
                                rc.break_event.level, rc.rejection_candle)

\* C2: IN_TRADE is entered only from AWAITING_CONFIRMATION (itself entered
\* only from AWAITING_RETEST, itself entered only from AWAITING_BREAK) or
\* directly from AWAITING_BREAK; never from AWAITING_RETEST.
C2_InTradeOnlyAfterConfirmation ==
    [][\A s \in Symbols :
          LET old == symbol_states[s].state
              new == symbol_states'[s].state
          IN /\ (new = "IN_TRADE" /\ old # "IN_TRADE")
                  => old \in {"AWAITING_CONFIRMATION", "AWAITING_BREAK"}
             /\ (new = "AWAITING_CONFIRMATION" /\ old # new)
                  => old = "AWAITING_RETEST"
             /\ (new = "AWAITING_RETEST" /\ old # new)
                  => old = "AWAITING_BREAK"]_vars

\* The bar's range reaches both the stop and the target of the trade.
BreachesBoth(trade, bar) ==
    IF trade.side = "BUY"
    THEN bar.low <= trade.stop_loss /\ bar.high >= trade.take_profit
    ELSE bar.high >= trade.stop_loss /\ bar.low <= trade.take_profit

\* C3: in both replay drivers, when the bar of a symbol that is IN_TRADE
\* reaches both the stop and the target, the position is closed on that bar
\* with the stop-loss exit reason, never take-profit.
C3_StopLossPrecedence ==
    (Replay /\ cur # None /\ cur[1].current_state = "IN_TRADE"
       /\ cur[1].trade # None
       /\ BreachesBoth(cur[1].trade[1], cur[1].latest_bar))
    => /\ symbol_states[cur[1].symbol].active_trade = None
       /\ trades # <<>>
       /\ trades[Len(trades)].entry_time = cur[1].trade[1].entry_time
       /\ trades[Len(trades)].exit_time = cur[1].latest_bar.name
       /\ ExitReasonOf(trades[Len(trades)]) \in {"SL", "STOP_LOSS"}

\* C4: in the replay drivers, the first bar of a symbol awaiting a retest
\* whose timestamp is past the retest deadline returns the symbol to
\* AWAITING_BREAK, discards the stored break event and opens no trade.
C4_RetestTimeout ==
    (Replay /\ cur # None /\ cur[1].current_state = "AWAITING_RETEST"
       /\ symbol_states[cur[1].symbol].retest_timeout_stamp # None
       /\ After(cur[1].latest_bar.name,
                symbol_states[cur[1].symbol].retest_timeout_stamp[1]))
    => /\ symbol_states[cur[1].symbol].state = "AWAITING_BREAK"
       /\ symbol_states[cur[1].symbol].last_break_event = None
       /\ symbol_states[cur[1].symbol].active_trade = None

\* C5: in the replay drivers, when the day's bars end while a symbol is
\* IN_TRADE, the position is closed with exit reason EOD at the close of the
\* symbol's last bar and the symbol returns to AWAITING_BREAK.
C5_EndOfDayClose ==
    [][(Replay /\ phase = "bars" /\ phase' = "idle")
       => \A s \in Symbols :
            (symbol_states[s].state = "IN_TRADE"
               /\ symbol_states[s].active_trade # None)
            => /\ symbol_states'[s].state = "AWAITING_BREAK"
               /\ symbol_states'[s].active_trade = None
               /\ Len(trades') = Len(trades) + 1
               /\ ExitReasonOf(trades'[Len(trades')]) = "EOD"
               /\ trades'[Len(trades')].exit_price = cur[1].latest_bar.close]_vars

\* C6: in the replay drivers a position leaves a symbol's state only by
\* being appended to the closed-trade log with an exit reason; no step,
\* the start-of-day reset included, drops it unrecorded.
C6_ClosedTradesAreLogged ==
    [][Replay
       => \A s \in Symbols :
            (symbol_states[s].active_trade # None
               /\ symbol_states'[s].active_trade # symbol_states[s].active_trade)
            => /\ Len(trades') = Len(trades) + 1
               /\ trades'[Len(trades')].entry_time =
                      symbol_states[s].active_trade[1].entry_time
               /\ trades'[Len(trades')].entry_price =
                      symbol_states[s].active_trade[1].entry_price]_vars

\* C10: Scenario A (levels pdh 100 and pdl 90, tolerance 1.0, buffer 2.0,
\* risk 100 dollars, 1 dollar per point; bars closing 101, dipping to 99.5
\* and closing 101.5, closing 102 above its open) ends IN_TRADE with one
\* position: BUY, entry 102, stop 97.5, quantity 22, target 111.
C10_ScenarioA ==
    scen = Len(ScenarioBars)
    => \A s \in Symbols :
         /\ symbol_states[s].state = "IN_TRADE"
         /\ symbol_states[s].active_trade # None
         /\ trades = <<>>
         /\ LET t == symbol_states[s].active_trade[1]
            IN /\ t.side = "BUY"
               /\ t.entry_price = 204
               /\ t.stop_loss = 195
               /\ t.quantity = 22
               /\ t.take_profit = 222

\* The bars of the data that lie before the session-open cutoff of the date.
BeforeCutoff(data, date) == {b \in data : After(<<date, LevelCutoff>>, b.name)}

\* The level set a caller ends up with: a caller that skips the calculation
\* (no data to calculate from) has none of the four levels, as has a
\* calculation that finds none.
LevelSetOf(mode, data, date) ==
    LET r == IF mode = "replay" THEN BT_levels(data, date)
             ELSE LIVE_levels(data, date)
    IN IF r = None THEN NoLevels ELSE r[1]

\* C8: the level set calculated for a day, by a replay driver or by the live
\* loop, is the level set calculated from the bars before that day's 09:30
\* cutoff alone: the bars at or after the cutoff do not influence it.
C8_NoLookAhead ==
    day_levels # None
    => LevelSetOf(day_levels[1].mode, all_data, day_levels[1].date) =
         LevelSetOf(day_levels[1].mode,
                    BeforeCutoff(all_data, day_levels[1].date),
                    day_levels[1].date)
       /\ day_levels[1].levels =
            LevelSetOf(day_levels[1].mode,
                       BeforeCutoff(all_data, day_levels[1].date),
                       day_levels[1].date)

\* C8 witness: the live loop calculated levels from data holding a valid bar
\* of the same day at or after the cutoff whose high exceeds the PDH found,
\* and a pre-market bar of that day.
C8_Witness ==
    /\ day_levels # None
    /\ day_levels[1].mode = "live"
    /\ {"pdh", "pmh"} \subseteq DOMAIN day_levels[1].levels
    /\ \E b \in all_data :
         /\ b.name[1] = day_levels[1].date
         /\ b.name[2] >= LevelCutoff
         /\ b.low > 0
         /\ b.high > day_levels[1].levels.pdh

\* C9: fed the same bars and the same level set, the live loop and the
\* replay driver are in the same FSM state after every bar and hold the same
\* entry (same side and entry price, taken on the same bar).
C9_BacktestLiveParity ==
    \A s \in Symbols :
        /\ twin[s].state = symbol_states[s].state
        /\ (twin[s].active_trade = None) = (symbol_states[s].active_trade = None)
        /\ twin[s].active_trade # None
             => /\ twin[s].active_trade[1].side = symbol_states[s].active_trade[1].side
                /\ twin[s].active_trade[1].entry_price =
                       symbol_states[s].active_trade[1].entry_price

IsCall(fn) == call # None /\ call[1].fn = fn

\* C11: for a pivot bar and a symbol with a configured buffer the stop
\* placer returns the pivot low minus the buffer for BUY and the pivot high
\* plus the buffer for SELL; it returns none when the pivot bar is missing.
C11_StopPlacement ==
    IsCall("calculate_stop_from_candle")
    => LET c == call[1]
       IN /\ c.pivot_candle = None => c.result = None
          /\ (c.pivot_candle # None /\ c.symbol \in DOMAIN cfg.buffer)
               => /\ c.result # None
                  /\ c.signal_direction = "BUY"
                       => c.pivot_candle[1].low - c.result[1] = cfg.buffer[c.symbol]
                  /\ c.signal_direction = "SELL"
                       => c.result[1] - c.pivot_candle[1].high = cfg.buffer[c.symbol]

\* C11 witness: a short stop was placed for a configured symbol.
C11_Witness ==
    /\ IsCall("calculate_stop_from_candle")
    /\ call[1].signal_direction = "SELL"
    /\ call[1].pivot_candle # None
    /\ call[1].symbol = "MES"
    /\ call[1].result # None

\* C12: for every entry price, stop price and configured reward-to-risk
\* ratio the target setter returns entry + ratio x |entry - stop| for a long
\* and entry - ratio x |entry - stop| for a short.
C12_TargetFromRatio ==
    IsCall("set_profit_target")
    => LET c == call[1]
           risk_amount == Abs(c.entry_price - c.stop_loss_price)
       IN IF c.signal_direction = "BUY"
          THEN c.result = c.entry_price + cfg.take_profit_rrr * risk_amount
          ELSE c.result = c.entry_price - cfg.take_profit_rrr * risk_amount

C15_FailedConfirmationResets ==
    (/\ cur # None
     /\ cur[1].current_state = "AWAITING_CONFIRMATION"
     /\ is_morning(cur[1].latest_bar.name)
     /\ symbol_states[cur[1].symbol].state # "IN_TRADE")
    => /\ symbol_states[cur[1].symbol].state = "AWAITING_BREAK"
       /\ symbol_states[cur[1].symbol].retest_context = None
       /\ symbol_states[cur[1].symbol].active_trade = None

\* C16: every bar on which a driver moves a symbol into IN_TRADE is one on
\* which the confirmation held (the symbol stood in AWAITING_CONFIRMATION, or
\* in AWAITING_BREAK for an immediate entry), and the position it opens
\* records a stop and a target that are defined and a quantity of at least 1.
\* On that path the validator has accepted the signal.
C16_EntryIsChecked ==
    (/\ cur # None
     /\ cur[1].current_state # "IN_TRADE"
     /\ symbol_states[cur[1].symbol].state = "IN_TRADE")
    => /\ cur[1].current_state \in {"AWAITING_CONFIRMATION", "AWAITING_BREAK"}
       /\ symbol_states[cur[1].symbol].active_trade # None
       /\ LET trade == symbol_states[cur[1].symbol].active_trade[1]
          IN /\ {"stop_loss", "take_profit", "quantity"} \subseteq DOMAIN trade
             /\ trade.stop_loss # 0
             /\ trade.quantity >= 1

\* C17: at the start of each trading day, before its first bar, every
\* symbol of a driver with a daily reset is fully re-initialised: it stands
\* in AWAITING_BREAK with no break event, no retest context, no retest
\* deadline, no position, fresh daily counters and a break detector without
\* memory.
C17_DailyReinitialisation ==
    (driver \in {"bt", "px", "live"} /\ day >= 1 /\ cur = None)
    => \A s \in Symbols :
         /\ symbol_states[s].state = "AWAITING_BREAK"
         /\ symbol_states[s].last_break_event = None
         /\ symbol_states[s].retest_context = None
         /\ symbol_states[s].retest_timeout_stamp = None
         /\ symbol_states[s].active_trade = None
         /\ symbol_states[s].daily_trade_status = NewDailyStatus
         /\ symbol_states[s].break_detector = NewBreakDetector

\* C20: in the replay drivers a bar handled while the symbol awaits a retest
\* leaves AWAITING_RETEST only by deadline expiry (to AWAITING_BREAK) or by a
\* qualifying retest (to AWAITING_CONFIRMATION); otherwise, a fresh break
\* included, the pending break event with its level and direction and the
\* retest deadline stay as they were.
C20_FreshBreakIgnored ==
    [][(/\ Replay /\ cur' # None /\ cur' # cur
        /\ cur'[1].current_state = "AWAITING_RETEST")
       => LET s == cur'[1].symbol
              bar == cur'[1].latest_bar
              old == symbol_states[s]
              new == symbol_states'[s]
          IN \/ /\ new.state = "AWAITING_RETEST"
                /\ new.last_break_event = old.last_break_event
                /\ new.retest_timeout_stamp = old.retest_timeout_stamp
             \/ /\ new.state = "AWAITING_BREAK"
                /\ After(bar.name, old.retest_timeout_stamp[1])
             \/ /\ new.state = "AWAITING_CONFIRMATION"
                /\ new.last_break_event = old.last_break_event
                /\ new.retest_timeout_stamp = old.retest_timeout_stamp
                /\ check_for_retest(s, bar, old.last_break_event[1].level,
                                    BreakDir(old.last_break_event[1])) # None]_vars

\* C20 witness: a morning bar closing above PDH was handled while a break
\* below PDL awaited its retest, and the symbol still awaits that retest.
C20_Witness ==
    /\ Replay /\ cur # None
    /\ cur[1].current_state = "AWAITING_RETEST"
    /\ is_morning(cur[1].latest_bar.name)
    /\ LET st == symbol_states[cur[1].symbol]
       IN /\ st.state = "AWAITING_RETEST"
          /\ st.last_break_event # None
          /\ st.last_break_event[1].type = "down"
          /\ "pdh" \in DOMAIN st.levels
          /\ cur[1].latest_bar.close > st.levels.pdh
          /\ ~After(cur[1].latest_bar.name, st.retest_timeout_stamp[1])

\* C18: in Backtester, on a day whose levels lack PDH or PDL for a symbol,
\* no bar of that symbol reaches its state machine: after the head of the
\* day no step of that day changes the symbol's state or adds a trade of it,
\* and every symbol in the day's bar loop has PDH and PDL.
C18_SkippedSymbolDay ==
    [][(driver = "bt" /\ phase = "bars" /\ day' = day)
       => /\ \A s \in MultiSymbols \ included :
               /\ symbol_states'[s] = symbol_states[s]
               /\ \A i \in 1..Len(trades') :
                     trades'[i].symbol = s => (i <= Len(trades) /\ trades[i] = trades'[i])
          /\ \A s \in included : {"pdh", "pdl"} \subseteq DOMAIN symbol_states[s].levels]_vars

\* C18 witness: on the first day MES has no PDH and PDL and MNQ has, the bar
\* of MNQ has moved its state machine, and the second day has started.
C18_Witness ==
    /\ driver = "bt" /\ day = 2 /\ phase = "bars"
    /\ symbol_states["MNQ"].last_break_event # None
    /\ symbol_states["MNQ"].last_break_event[1].candle.name[1] = 1
    /\ symbol_states["MES"] = NewSymbolState
    /\ included = {"MNQ"}

\* C19: the run never stops while a symbol without a failure remains: it
\* is not aborted after the data of some symbol has loaded, and not ended by
\* an exception raised on another symbol's bar.
C19_FailuresAreSymbolScoped ==
    /\ phase = "aborted" => DOMAIN all_data = {}
    /\ crashed => (cur # None /\ MultiSymbols \ {cur[1].symbol} = {})

C22_ValidatorChecks ==
    IsCall("validate_signal")
    => LET c == call[1]
           ctx == c.context
           buy == c.signal_direction = "BUY"
           entry == ctx.latest_bar
           volume_ok == ctx.breakout_candle.volume >= cfg.min_volume[ctx.symbol]
           slippage == IF buy THEN entry.close - ctx.level_broken
                              ELSE ctx.level_broken - entry.close
           slippage_ok == slippage <= cfg.max_slippage
           distance_ok == ~_check_level_confluence(c.signal_direction, entry, ctx.levels,
                                                   cfg.min_distance[ctx.symbol])
           bias_ok == IF buy THEN entry.close > entry.ema_200
                             ELSE entry.close < entry.ema_200
           direction_ok == IF buy THEN entry.close > entry.open
                                  ELSE entry.close < entry.open
       IN /\ c.result.is_valid
               = (volume_ok /\ slippage_ok /\ distance_ok /\ bias_ok /\ direction_ok)
          /\ ~volume_ok => c.result.reason = "volume"
          /\ (volume_ok /\ slippage_ok /\ ~distance_ok)
               => c.result.reason = "level confluence"
          /\ (volume_ok /\ slippage_ok /\ distance_ok /\ bias_ok /\ ~direction_ok)
               => c.result.reason \in {"not bullish", "not bearish"}

\* C23: the conviction multiplier is applied only to a signal with an
\* indicator-confluence tag: when a replay driver opens a position from a
\* retest that touched the static level only (its wick stayed outside the
\* tolerance band of the 13-period average), the quantity is the one the
\* sizer gives for the unmultiplied risk budget.
C23_StaticRetestBaseBudget ==
    [][\A s \in DOMAIN symbol_states :
         LET old == symbol_states[s]
             new == symbol_states'[s]
         IN (/\ driver \in {"bt", "px"}
             /\ old.state = "AWAITING_CONFIRMATION"
             /\ old.retest_context # None
             /\ old.retest_context[1].confluence_type = Some("STATIC")
             /\ LET rc == old.retest_context[1]
                    pivot == rc.pivot_candle
                    tol13 == cfg.ema_tolerance_13[s]
                IN \/ pivot.ema_13 = 0
                   \/ rc.break_event.type = "up" /\ pivot.low > pivot.ema_13 + tol13
                   \/ rc.break_event.type = "down" /\ pivot.high < pivot.ema_13 - tol13
             /\ new.state = "IN_TRADE"
             /\ new.active_trade # None)
            => LET trade == new.active_trade[1]
               IN trade.quantity = calculate_size(balance, trade.entry_price,
                                                  trade.stop_loss, s, FALSE)]_vars

RECURSIVE RtReplay(_)
RtReplay(events) ==
    IF events = <<>>
    THEN [current_bars |-> [c \in MultiSymbols |-> None], published |-> <<>>]
    ELSE LET before == RtReplay(SubSeq(events, 1, Len(events) - 1))
             event_data == events[Len(events)]
             r == _handle_trade_event(before.current_bars[event_data.contractId],
                                      event_data)
         IN [current_bars |-> [before.current_bars EXCEPT
                                  ![event_data.contractId] = Some(r.bar)],
             published |-> before.published \o r.publish]

\* C25: in live mode each symbol's mutable state has one writer at a time.
\* At most one event handler runs; a running handler, and the main loop
\* inside a cycle, still see the value they read (nobody wrote it in
\* between); the events applied are the events that arrived, in arrival
\* order, and the bars under construction and the published bars are those
\* of applying the events one after the other.
C25_SingleWriter ==
    rt # None
    => LET r == rt[1]
       IN /\ Cardinality(r.handling) <= 1
          /\ \A h \in r.handling :
                h.current_bar = r.current_bars[h.event_data.contractId]
          /\ r.main # None => r.main[1].current_state = r.state[r.main[1].symbol]
          /\ Len(r.applied) <= Len(r.arrived)
          /\ r.applied = SubSeq(r.arrived, 1, Len(r.applied))
          /\ r.current_bars = RtReplay(r.applied).current_bars
          /\ r.published = RtReplay(r.applied).published

\* A handler updates the bar of a contract while the main loop is inside a
\* cycle of the same symbol, and a bar of that contract is already built.
C25_Witness ==
    /\ rt # None
    /\ rt[1].main # None
    /\ \E h \in rt[1].handling :
         /\ h.event_data.contractId = rt[1].main[1].symbol
         /\ h.current_bar # None
    /\ rt[1].published # <<>>

\* C26: a break is signalled only on a bar that crosses the level.  With
\* one confirmation candle, when the detector emits an event on a bar that
\* follows another bar of the day, the bar closes strictly beyond the
\* level and the bar before it closed at or inside the level.
C26_BreakIsCrossing ==
    [][\A s \in DOMAIN symbol_states :
         LET old == symbol_states[s]
             new == symbol_states'[s]
         IN (/\ cfg.confirmation_candles = 1
             /\ old.state = "AWAITING_BREAK"
             /\ cur # None /\ cur' # None
             /\ cur[1].symbol = s /\ cur'[1].symbol = s
             /\ cur'[1].latest_bar.name # cur[1].latest_bar.name
             /\ new.last_break_event # None
             /\ new.last_break_event[1].candle = cur'[1].latest_bar)
            => LET event == new.last_break_event[1]
                   close == cur'[1].latest_bar.close
                   previous_close == cur[1].latest_bar.close
               IN IF event.type = "up"
                  THEN close > event.level_value /\ previous_close <= event.level_value
                  ELSE close < event.level_value /\ previous_close >= event.level_value]_vars

\* On which side of the range a bar closes.
ClosesBeyond(bar, levels) ==
    LET lowest_resistance == SetMin({levels[k] : k \in DOMAIN levels \cap {"pdh", "pmh"}})
        highest_support == SetMax({levels[k] : k \in DOMAIN levels \cap {"pdl", "pml"}})
    IN IF bar.close > lowest_resistance THEN "up"
       ELSE IF bar.close < highest_support THEN "down"
       ELSE "inside"

\* The number of bars up to bar i that close beyond the range on the side
\* of bar i without interruption, counted from the last event.
RECURSIVE Streak(_, _)
Streak(c, i) ==
    IF i = 0 \/ ClosesBeyond(c.bars[i], c.levels) = "inside" THEN 0
    ELSE IF /\ i > 1
            /\ c.results[i - 1] = None
            /\ ClosesBeyond(c.bars[i - 1], c.levels) = ClosesBeyond(c.bars[i], c.levels)
    THEN Streak(c, i - 1) + 1
    ELSE 1

\* C27: with N confirmation candles the detector emits an event only on
\* the N-th consecutive bar closing beyond the level on one side; after a
\* bar that closes inside the range both counters are zero, after a bar
\* that closes on the other side than the bar before it the counter of the
\* abandoned side is zero, and after an event both counters are zero.
C27_NthConsecutiveClose ==
    IsCall("check_for_break")
    => LET c == call[1]
           n == Len(c.bars)
           side == ClosesBeyond(c.bars[n], c.levels)
           bd == c.break_detector
       IN /\ c.results[n] # None
             => /\ c.results[n][1].type = side
                /\ Streak(c, n) = cfg.confirmation_candles
                /\ bd.break_above_confirmations = 0
                /\ bd.break_below_confirmations = 0
          /\ side = "inside"
             => bd.break_above_confirmations = 0 /\ bd.break_below_confirmations = 0
          /\ side = "up" => bd.break_below_confirmations = 0
          /\ side = "down" => bd.break_above_confirmations = 0

\* The bar touches the broken level within the tolerance and rejects it:
\* after an up break the low lies in [level - tol, level + tol] and the
\* close in the upper half of the bar's range, after a down break the high
\* lies in the band and the close in the lower half.
TouchesAndRejects(c) ==
    LET bar == c.latest_bar
        tol == cfg.tolerance[c.symbol]
        level == c.broken_level_price
    IN IF c.break_direction = "up"
       THEN /\ level - tol <= bar.low /\ bar.low <= level + tol
            /\ 2 * bar.close >= bar.high + bar.low
       ELSE /\ level - tol <= bar.high /\ bar.high <= level + tol
            /\ 2 * bar.close <= bar.high + bar.low

C29_LiveRejectionResets ==
    IsCall("main_awaiting_retest")
    => LET c == call[1]
           break_direction == BreakDir(c.break_event)
           trade_side == IF break_direction = "up" THEN "BUY" ELSE "SELL"
           retest == check_for_retest(c.symbol, c.latest_bar, c.break_event.level,
                                      break_direction)
           v == validate_signal(trade_side,
                                [breakout_candle |-> c.break_event.candle,
                                 symbol |-> c.symbol, latest_bar |-> c.latest_bar,
                                 levels |-> NoLevels])
       IN (retest # None /\ ~v.is_valid)
          => /\ c.result.state = "AWAITING_BREAK"
             /\ c.result.active_trade = None
             /\ ~c.crash

\* C30: the exit price of every trade a replay driver closes follows from
\* its exit reason: the stop for a stop-loss exit, the target for a
\* take-profit exit (recorded only on a bar that reaches the target without
\* breaching the stop), the close of the exit bar for an end-of-day exit;
\* after the close the symbol is in AWAITING_BREAK and holds no position.
C30_ExitPriceByReason ==
    [][(Replay /\ Len(trades') > Len(trades))
       => LET closed == trades'[Len(trades')]
              reason == ExitReasonOf(closed)
              exit_bar == IF reason = "EOD" THEN day_last[closed.symbol][1]
                                            ELSE cur'[1].latest_bar
              stop_breached == IF closed.side = "BUY"
                               THEN exit_bar.low <= closed.stop_loss
                               ELSE exit_bar.high >= closed.stop_loss
              target_reached == IF closed.side = "BUY"
                                THEN exit_bar.high >= closed.take_profit
                                ELSE exit_bar.low <= closed.take_profit
          IN /\ Len(trades') = Len(trades) + 1
             /\ closed.exit_time = exit_bar.name
             /\ reason \in {"SL", "STOP_LOSS", "TP", "TAKE_PROFIT", "EOD"}
             /\ reason \in {"SL", "STOP_LOSS"}
                => closed.exit_price = closed.stop_loss /\ stop_breached
             /\ reason \in {"TP", "TAKE_PROFIT"}
                => /\ closed.exit_price = closed.take_profit
                   /\ target_reached /\ ~stop_breached
             /\ reason = "EOD" => closed.exit_price = exit_bar.close
             /\ symbol_states'[closed.symbol].state = "AWAITING_BREAK"
             /\ symbol_states'[closed.symbol].active_trade = None]_vars

\* The log holds a trade closed at its target and the symbol is free again.
C30_Witness ==
    /\ Replay
    /\ \E i \in 1..Len(trades) :
         /\ ExitReasonOf(trades[i]) \in {"TP", "TAKE_PROFIT"}
         /\ trades[i].exit_price = trades[i].take_profit
         /\ symbol_states[trades[i].symbol].state = "AWAITING_BREAK"

\* C31: a replay driver opens a position only on a bar inside the morning
\* window, and it evaluates every bar of a symbol that holds a position
\* against stop and target, also after the morning window: a bar that
\* breaches the stop or reaches the target closes the position.
C31_EntryWindowExitAlways ==
    [][(/\ Replay
        /\ cur' # cur
        /\ cur' # None)
       => LET s == cur'[1].symbol
              bar == cur'[1].latest_bar
              old == symbol_states[s]
              new == symbol_states'[s]
          IN /\ (old.active_trade = None /\ new.active_trade # None)
                => is_morning(bar.name)
             /\ old.active_trade # None
                => LET trade == old.active_trade[1]
                       hit == IF trade.side = "BUY"
                              THEN bar.low <= trade.stop_loss
                                   \/ bar.high >= trade.take_profit
                              ELSE bar.high >= trade.stop_loss
                                   \/ bar.low <= trade.take_profit
                   IN hit => (new.active_trade = None
                              /\ Len(trades') = Len(trades) + 1)]_vars

\* C32: closing a position cancels the bracket order at the broker before
\* it submits the opposing market order, and after the close the bracket of
\* the closed position is no longer working at the broker.
C32_CloseCancelsBracket ==
    [][(IsCall("broker") /\ call[1].active_trade # None /\ call'[1].active_trade = None)
       => /\ call'[1].requests = <<"order/cancel", "order/place">>
          /\ call[1].active_trade[1] \notin call'[1].working]_vars

\* C33: while one call of _make_request runs there is at most one
\* re-authentication after a 401 answer and the request is sent at most twice.
C33_OneReauthOneRetry ==
    IsCall("broker") => (call[1].reauths <= 1 /\ call[1].sent <= 2 /\ ~call[1].raised)

\* The trades of contract c that the aggregator has handled and whose
\* timestamps fall in the interval that starts at start.
TradesOf(c, start) ==
    SelectSeq(rt[1].applied,
              LAMBDA e : e.contractId = c /\ (e.timestamp \div 60) * 60 = start)

\* C34: for each contract the published bars are in strictly ascending
\* interval order, no interval is published twice, and every published bar
\* aggregates exactly the trades of its interval: open is the first price,
\* close the last, high the maximum, low the minimum, volume the sum of sizes.
C34_BarsAggregateTheirInterval ==
    rt # None =>
      LET published == rt[1].published
      IN /\ \A i, j \in 1..Len(published) :
               (i < j /\ published[i][1] = published[j][1])
                  => published[i][2].timestamp < published[j][2].timestamp
         /\ \A i \in 1..Len(published) :
               LET bar == published[i][2]
                   ticks == TradesOf(published[i][1], bar.timestamp)
                   prices == {ticks[k].price : k \in 1..Len(ticks)}
               IN /\ ticks # <<>>
                  /\ bar.open = ticks[1].price
                  /\ bar.close = ticks[Len(ticks)].price
                  /\ bar.high = SetMax(prices)
                  /\ bar.low = SetMin(prices)
                  /\ bar.volume = Len(ticks)

\* The i-th call of the signal generator: the break that was active when
\* the bar arrived, whether the bar came after the deadline, and whether it
\* is a retest of the broken level within the deadline.
SigActive(i) == call[1].active[i]
SigLate(i) ==
    /\ SigActive(i) # None
    /\ After(call[1].bars[i].name,
             AddMinutes(SigActive(i)[1].breakout_time, cfg.retest_timeout))
SigQualifies(i) ==
    /\ SigActive(i) # None
    /\ ~SigLate(i)
    /\ check_for_retest(call[1].symbol, call[1].bars[i],
                        SigActive(i)[1].broken_level,
                        SigActive(i)[1].break_event) # None
SigAfter(i) ==
    IF i < Len(call[1].bars) THEN call[1].active[i + 1]
    ELSE call[1].generator.active_break_info
SigSignals == {i \in 1..Len(call[1].bars) : call[1].results[i].side \in {"BUY", "SELL"}}
SigBreaks == {i \in 1..Len(call[1].bars) : SigActive(i) = None /\ SigAfter(i) # None}

\* C35 as stated: the generator yields NONE on every bar unless a break was
\* recorded on an earlier bar and the bar is a retest within the timeout.
C35_NoneUnlessRetest ==
    IsCall("process_bar") =>
       \A i \in 1..Len(call[1].bars) :
          ~SigQualifies(i) => call[1].results[i].side = "NONE"

\* C35: the generator yields BUY (up break) or SELL (down break) exactly on a
\* bar that is a retest, within the timeout, of a break recorded on an
\* earlier bar, and that signal clears the active break; the first bar after
\* the deadline yields RETEST_TIMEOUT and clears the break; every other bar
\* yields NONE.  One break produces at most one BUY/SELL signal.
C35_SignalOnlyOnRetest ==
    IsCall("process_bar") =>
       /\ \A i \in 1..Len(call[1].bars) :
             LET side == call[1].results[i].side
             IN /\ SigQualifies(i)
                     => /\ side = IF SigActive(i)[1].break_event = "up" THEN "BUY" ELSE "SELL"
                        /\ SigAfter(i) = None
                /\ SigLate(i) => (side = "RETEST_TIMEOUT" /\ SigAfter(i) = None)
                /\ (~SigQualifies(i) /\ ~SigLate(i)) => side = "NONE"
       /\ \A i \in SigSignals : \E b \in SigBreaks :
             /\ b < i
             /\ \A j \in SigSignals : (b < j /\ j < i) => FALSE
             /\ \A k \in (b + 1)..i : SigActive(k) = SigAfter(b)

\* A break on the first bar, its retest on a later bar: a BUY signal.
C35_Witness ==
    /\ IsCall("process_bar")
    /\ \E i \in SigSignals : call[1].results[i].side = "BUY" /\ SigQualifies(i)

\* C36: in every state of a driver (Backtester, BacktesterProjectX, main)
\* the state of a symbol and its stored
\* context agree: AWAITING_RETEST comes with a stored break event and a
\* retest deadline, AWAITING_CONFIRMATION with a stored retest context, and
\* the state is IN_TRADE exactly when the active trade is not none.
C36_StateAgreesWithContext ==
    driver \in {"bt", "px", "live"} =>
    \A s \in DOMAIN symbol_states :
       LET st == symbol_states[s]
       IN /\ st.state = "AWAITING_RETEST"
               => (st.last_break_event # None /\ st.retest_timeout_stamp # None)
          /\ st.state = "AWAITING_CONFIRMATION" => st.retest_context # None
          /\ st.state = "IN_TRADE" <=> st.active_trade # None

\* A replay driver holds a retest context while it waits for confirmation.
C36_Witness ==
    /\ Replay
    /\ \E s \in DOMAIN symbol_states :
          /\ symbol_states[s].state = "AWAITING_CONFIRMATION"
          /\ symbol_states[s].retest_context # None
          /\ symbol_states[s].last_break_event # None

\* C37: every position a replay driver holds has its stop on the loss side
\* and its target on the profit side of the entry price, strictly, and no
\* trade closed at its stop is recorded with a positive profit.
C37_StopAndTargetStraddleEntry ==
    Replay =>
       /\ \A s \in DOMAIN symbol_states :
             symbol_states[s].active_trade # None
                => LET trade == symbol_states[s].active_trade[1]
                   IN IF trade.side = "BUY"
                      THEN trade.stop_loss < trade.entry_price
                           /\ trade.entry_price < trade.take_profit
                      ELSE trade.take_profit < trade.entry_price
                           /\ trade.entry_price < trade.stop_loss
       /\ \A i \in 1..Len(trades) :
             ExitReasonOf(trades[i]) = "SL" => trades[i].pnl_dollars <= 0

\* C38: a symbol stays in AWAITING_CONFIRMATION for one processed bar: the
\* bar that a replay driver processes in that state leaves the symbol in
\* IN_TRADE or in AWAITING_BREAK.
C38_ConfirmationLastsOneBar ==
    [][(/\ Replay /\ cur' # cur /\ cur' # None
        /\ symbol_states[cur'[1].symbol].state = "AWAITING_CONFIRMATION"
        /\ is_morning(cur'[1].latest_bar.name))
       => symbol_states'[cur'[1].symbol].state \in {"IN_TRADE", "AWAITING_BREAK"}]_vars

\* A confirmation bar was processed and opened a position.
C38_Witness ==
    /\ Replay /\ cur # None
    /\ cur[1].current_state = "AWAITING_CONFIRMATION"
    /\ symbol_states[cur[1].symbol].state = "IN_TRADE"

\* C39: a replay driver never opens and closes a position on the same bar:
\* every closed trade, the ones closed by the end-of-day position management
\* included, has an exit time strictly after its entry time.
C39_ExitAfterEntry ==
    /\ Replay => \A i \in 1..Len(trades) : After(trades[i].exit_time, trades[i].entry_time)
    /\ IsCall("end_of_day")
          => \A i \in 1..Len(call[1].closed) :
                After(call[1].closed[i].exit_time, call[1].closed[i].entry_time)

\* What C40 names of a symbol's state: the state, the pending break event,
\* the pending retest context, the retest deadline, the levels, the position.
FrameOf(st) ==
    <<st.state, st.last_break_event, st.retest_context, st.retest_timeout_stamp,
      st.levels, st.active_trade>>

\* C40: processing a bar of one symbol leaves the state, break event, retest
\* context, deadline, levels and position of every other symbol unchanged.
C40_OtherSymbolsUntouched ==
    [][(cur' # cur /\ cur' # None)
       => \A s \in DOMAIN symbol_states :
             s # cur'[1].symbol => FrameOf(symbol_states'[s]) = FrameOf(symbol_states[s])]_vars

\* A bar of one symbol changed that symbol while the other one held a
\* pending break.
C40_Witness ==
    /\ cur # None
    /\ cur[1].current_state # symbol_states[cur[1].symbol].state
    /\ \E s \in DOMAIN symbol_states :
          s # cur[1].symbol /\ symbol_states[s].state # "AWAITING_BREAK"

====
